---- MODULE Spec2Model ----
(***************************************************************************)
(* Model of the patient engagement engine: the patient state machine       *)
(* (lib/state-machine/transitions.js), the enrollment endpoint             *)
(* (api/enroll.js) and the Postgres-backed job queue                       *)
(* (lib/services/scheduler.js, migration 003 get_and_lock_due_jobs).       *)
(*                                                                         *)
(* transitionState and the job claim are modelled statement by statement  *)
(* (one supabase call or one SQL phase is one atomic step), so that        *)
(* concurrent requests interleave inside them; the other operations are    *)
(* one step each.                                                          *)
(***************************************************************************)
EXTENDS Integers, Sequences, FiniteSets, TLC

(***************************************************************************)
(* Bounds of the model                                                     *)
(***************************************************************************)
\* Total number of transitionState invocations explored.
MaxCalls == 2
\* Total number of enrollment requests explored.
MaxEnrolls == 1
\* Rows the scheduled_jobs table may hold.
MaxJobs == 2

(***************************************************************************)
(* Program constants (times are in clock ticks)                            *)
(***************************************************************************)
\* One day: 24 * 60 * 60 * 1000 ms (enroll.js scheduleOnboardReminder;
\* nextOccurrence moves the target by one day).
Day == 2
\* scheduler.js markJobFailed: retryAt = Date.now() + 5 * 60 * 1000.
RetryBackoff == 1
\* scheduler.js generateJitter: Math.floor(Math.random() * 300) seconds, which
\* stays below the five minutes of RetryBackoff: the largest jitter in ticks.
MaxJitter == 1
\* scheduled_jobs.max_attempts SMALLINT NOT NULL DEFAULT 3.
DefaultMaxAttempts == 3

\* The clock runs from 0 to one day; a dispatcher passes a job_limit of one or
\* of the size of the table.
MaxTime == Day
JobLimits == {1, MaxJobs}

PatientIds == {"p1", "p2"}
\* The patient the state-machine and enrollment requests are about.
SubjectIds == {"p1"}
CallerIds == {"c1", "c2"}
WorkerIds == {"w1", "w2"}

NULL == "NULL"

States ==
    {"ENROLLED", "ONBOARDING", "DAILY_ACTIVE", "PAUSED", "TRANSITION",
     "WEEKLY", "TREATMENT", "DORMANT", "UNSUBSCRIBED"}

NonTerminalStates == States \ {"UNSUBSCRIBED"}

\* The two callers of transitionState: the inbound webhook (c1) passes
\* PATIENT_RESPONSE, the cron dispatcher (c2) passes SYSTEM_TIMER.
TriggerOf(c) == IF c = "c1" THEN "PATIENT_RESPONSE" ELSE "SYSTEM_TIMER"

VARIABLES
    now,        \* the clock (Date.now(), NOW()), in ticks
    patients,   \* table patients: patient_id -> row, for the rows that exist
    audit,      \* table state_transitions: the sequence of rows inserted
    calls,      \* the transitionState invocations in flight, per caller
    nCalls,     \* transitionState invocations started so far
    nEnrolls,   \* enrollment requests handled so far
    jobs,       \* table scheduled_jobs: sequence of rows, job_id = index
    workers,    \* the dispatcher invocations: their claim statement and batch
    messages,   \* table messages: outbound SMS logged by sendSMS
    parse,      \* the call of a parser or scheduler function in progress, with its result
    sprints,    \* table sprints: sequence of rows, sprint_id = index
    entries,    \* table daily_entries: the set of rows
    medications, \* table medication_history: the sequence of rows inserted
    inbound     \* the inbound messages logged by the webhook: their number and the latest

vars == <<now, patients, audit, calls, nCalls, nEnrolls, jobs, workers, messages, parse,
          sprints, entries, medications, inbound>>

\* The tables only the inbound webhook writes.
WebhookTables == <<sprints, entries, medications, inbound>>

\* No call of the response parser is in progress.
NoParse == [kind |-> "none"]

\* The tables of the inbound webhook are empty.
NoWebhookRows ==
    /\ sprints = <<>>
    /\ entries = {}
    /\ medications = <<>>
    /\ inbound = [count |-> 0, last |-> <<>>]

(***************************************************************************)
(* lib/state-machine/transitions.js                                        *)
(***************************************************************************)

\* Map of from_state -> allowed to_states.
VALID_TRANSITIONS ==
    [s \in States |->
        CASE s = "ENROLLED"     -> {"ONBOARDING", "UNSUBSCRIBED", "DORMANT"}
          [] s = "ONBOARDING"   -> {"DAILY_ACTIVE", "UNSUBSCRIBED"}
          [] s = "DAILY_ACTIVE" -> {"DAILY_ACTIVE", "PAUSED", "TRANSITION", "UNSUBSCRIBED"}
          [] s = "PAUSED"       -> {"DAILY_ACTIVE", "DORMANT", "UNSUBSCRIBED"}
          [] s = "TRANSITION"   -> {"WEEKLY", "TREATMENT", "DORMANT", "UNSUBSCRIBED"}
          [] s = "WEEKLY"       -> {"DAILY_ACTIVE", "DORMANT", "UNSUBSCRIBED"}
          [] s = "TREATMENT"    -> {"TRANSITION", "PAUSED", "UNSUBSCRIBED"}
          [] s = "DORMANT"      -> {"DAILY_ACTIVE", "UNSUBSCRIBED"}
          [] s = "UNSUBSCRIBED" -> {}]

\* A patients row as the enrollment insert creates it (column defaults).
NewPatientRow ==
    [state              |-> "ENROLLED",
     pending_question   |-> NULL,
     preferred_time     |-> NULL,
     timezone           |-> "America/New_York",
     day_count          |-> 0,
     consecutive_missed |-> 0,
     opted_in_at        |-> <<>>,
     opted_out_at       |-> <<>>]

\* A row that exists from the start, in any lifecycle state, with the opt-in
\* and opt-out timestamps that state implies.
InitialRow(s) ==
    [NewPatientRow EXCEPT
        !.state = s,
        !.opted_in_at = IF s \in {"ENROLLED", "UNSUBSCRIBED"} THEN <<>> ELSE <<0>>,
        !.opted_out_at = IF s = "UNSUBSCRIBED" THEN <<0>> ELSE <<>>]

\* UPDATE patients SET <upd> : the columns named in upd are overwritten.
ApplyUpdates(row, upd) ==
    [col \in DOMAIN row |-> IF col \in DOMAIN upd THEN upd[col] ELSE row[col]]

\* The additionalUpdates objects the callers of transitionState pass.
NoUpdates == [col \in {} |-> NULL]

AdditionalUpdateChoices(toState) ==
    {NoUpdates} \cup
    CASE toState = "ONBOARDING"   -> {[pending_question |-> "ONBOARD_TIME"]}
      [] toState = "TRANSITION"   -> {[pending_question |-> "TRANSITION_CHOICE"]}
      [] toState = "DAILY_ACTIVE" -> {[preferred_time |-> "08:00", pending_question |-> NULL,
                                       day_count |-> 0, consecutive_missed |-> 0]}
      [] OTHER -> {}

\* Step 1: .select('patient_id, state, phone_number, first_name'): the columns
\* of the row that the function holds in `patient`.
SelectForTransition(pid) ==
    [patient_id |-> pid, state |-> patients[pid].state]

\* A validation that consults the table alone, without the STOP override of
\* step 2.
TableOnlyCheck(table, fromState, toState) ==
    toState \notin table[fromState]

\* Steps 2 and 3 against a transition table: TRUE when the call is rejected as
\* an invalid transition. STOP is allowed from any non-terminal state before
\* the table is consulted.
TransitionRejected(table, fromState, toState) ==
    IF toState = "UNSUBSCRIBED" /\ fromState # "UNSUBSCRIBED"
    THEN FALSE
    ELSE toState \notin table[fromState]

\* A validation that runs the same-state skip of step 4 before the table
\* lookup of step 3.
SkipBeforeValidation(fromState, toState) ==
    /\ fromState # toState
    /\ TransitionRejected(VALID_TRANSITIONS, fromState, toState)

\* Steps 2 and 3 as transitionState runs them, against VALID_TRANSITIONS.
IsInvalidTransition(fromState, toState) ==
    TransitionRejected(VALID_TRANSITIONS, fromState, toState)

\* Step 4: TRUE when the call returns early because the patient is already
\* in the target state.
IsSameStateSkip(fromState, toState) ==
    fromState = toState /\ toState # "DAILY_ACTIVE"

\* Step 5: the updates object: state, the additional updates and the opt-in /
\* opt-out timestamps. `patient` is the object selected in step 1; a column it
\* does not hold reads as undefined.
BuildUpdates(patient, toState, additionalUpdates) ==
    LET base == [col \in {"state"} \cup DOMAIN additionalUpdates |->
                    IF col \in DOMAIN additionalUpdates
                    THEN additionalUpdates[col] ELSE toState]
        optedIn == IF "opted_in_at" \in DOMAIN patient
                   THEN patient.opted_in_at # <<>> ELSE FALSE
        withIn == IF toState = "ONBOARDING" /\ ~optedIn
                  THEN [col \in DOMAIN base \cup {"opted_in_at"} |->
                          IF col = "opted_in_at" THEN <<now>> ELSE base[col]]
                  ELSE base
    IN  IF toState = "UNSUBSCRIBED"
        THEN [col \in DOMAIN withIn \cup {"opted_out_at"} |->
                IF col = "opted_out_at" THEN <<now>> ELSE withIn[col]]
        ELSE withIn

\* An audit row whose from_state is read back from the updated row.
AuditRowAfterUpdate(pid, fromState, toState, triggerType) ==
    [patient_id |-> pid, from_state |-> toState, to_state |-> toState,
     trigger_type |-> triggerType]

\* Step 6: the row inserted into state_transitions.
AuditRow(pid, fromState, toState, triggerType) ==
    [patient_id |-> pid, from_state |-> fromState, to_state |-> toState,
     trigger_type |-> triggerType]

IdleCall ==
    [pc |-> "idle", patientId |-> NULL, toState |-> NULL, triggerType |-> NULL,
     additionalUpdates |-> NoUpdates, fromState |-> NULL, updates |-> NoUpdates,
     result |-> NULL, patient |-> NoUpdates, logError |-> FALSE,
     rowWrites |-> 0, auditWrites |-> 0]

\* transitionState, lines 48-78: the fresh read of the row and the checks made
\* on it before anything is written.
TS_Begin(c, pid, toState, triggerType, additionalUpdates) ==
    /\ calls[c].pc = "idle"
    /\ nCalls < MaxCalls
    /\ nCalls' = nCalls + 1
    /\ LET args == [IdleCall EXCEPT !.patientId = pid, !.toState = toState,
                        !.triggerType = triggerType,
                        !.additionalUpdates = additionalUpdates]
       IN  IF pid \notin DOMAIN patients
           THEN calls' = [calls EXCEPT ![c] =
                    [args EXCEPT !.pc = "done", !.result = "NotFound"]]
           ELSE LET patient == SelectForTransition(pid)
                    fromState == patient.state
                    read == [args EXCEPT !.fromState = fromState, !.patient = patient]
                IN  IF IsInvalidTransition(fromState, toState)
                    THEN calls' = [calls EXCEPT ![c] =
                            [read EXCEPT !.pc = "done", !.result = "InvalidTransition"]]
                    ELSE IF IsSameStateSkip(fromState, toState)
                    THEN calls' = [calls EXCEPT ![c] =
                            [read EXCEPT !.pc = "done", !.result = "NoOp"]]
                    ELSE calls' = [calls EXCEPT ![c] =
                            [read EXCEPT !.pc = "update",
                                !.updates = BuildUpdates(patient, toState, additionalUpdates)]]
    /\ UNCHANGED <<now, patients, audit, nEnrolls, jobs, workers, messages, parse, WebhookTables>>

\* The row the UPDATE of step 5 leaves in the table.
UpdatedRow(c) ==
    ApplyUpdates(patients[calls[c].patientId], calls[c].updates)

\* transitionState, lines 94-99: UPDATE patients SET updates WHERE patient_id.
TS_Update(c) ==
    /\ calls[c].pc = "update"
    /\ patients' = [patients EXCEPT ![calls[c].patientId] = UpdatedRow(c)]
    /\ calls' = [calls EXCEPT ![c].pc = "audit",
                              ![c].patient = UpdatedRow(c),
                              ![c].rowWrites = @ + 1]
    /\ UNCHANGED <<now, audit, nCalls, nEnrolls, jobs, workers, messages, parse, WebhookTables>>

\* transitionState, lines 101-103: the UPDATE returned an error.
TS_UpdateFails(c) ==
    /\ calls[c].pc = "update"
    /\ calls' = [calls EXCEPT ![c].pc = "done", ![c].result = "UpdateFailed"]
    /\ UNCHANGED <<now, patients, audit, nCalls, nEnrolls, jobs, workers, messages, parse, WebhookTables>>

\* transitionState, lines 106-122: INSERT INTO state_transitions, then return.
TS_Audit(c) ==
    /\ calls[c].pc = "audit"
    /\ audit' = Append(audit, AuditRow(calls[c].patientId, calls[c].fromState,
                                       calls[c].toState, calls[c].triggerType))
    /\ calls' = [calls EXCEPT ![c].pc = "done", ![c].result = "Success",
                              ![c].auditWrites = @ + 1]
    /\ UNCHANGED <<now, patients, nCalls, nEnrolls, jobs, workers, messages, parse, WebhookTables>>

\* A transitionState that reports the failed audit insert to its caller as a
\* failure (used to test C29).
TS_AuditFailsReturnsError(c) ==
    /\ calls[c].pc = "audit"
    /\ calls' = [calls EXCEPT ![c].pc = "done", ![c].result = "AuditFailed",
                              ![c].logError = TRUE]
    /\ UNCHANGED <<now, patients, audit, nCalls, nEnrolls, jobs, workers, messages, parse, WebhookTables>>

\* transitionState, lines 116-122: the insert failed; the error is logged and
\* the call still returns success.
TS_AuditFails(c) ==
    /\ calls[c].pc = "audit"
    /\ calls' = [calls EXCEPT ![c].pc = "done", ![c].result = "Success",
                              ![c].logError = TRUE]
    /\ UNCHANGED <<now, patients, audit, nCalls, nEnrolls, jobs, workers, messages, parse, WebhookTables>>

\* The caller has taken the returned { success, patient, error }.
TS_Return(c) ==
    /\ calls[c].pc = "done"
    /\ calls' = [calls EXCEPT ![c] = IdleCall]
    /\ UNCHANGED <<now, patients, audit, nCalls, nEnrolls, jobs, workers, messages, parse, WebhookTables>>


(***************************************************************************)
(* lib/services/scheduler.js and migration 003 (get_and_lock_due_jobs)     *)
(***************************************************************************)

JobTypes == {"DAILY_CHECKIN", "WEEKLY_QUESTION", "ONBOARD_REMINDER", "RE_ENGAGEMENT"}
JobStatuses == {"PENDING", "PROCESSING", "COMPLETED", "FAILED", "CANCELLED"}
JobIds == 1 .. Len(jobs)

\* A scheduled_jobs row as an insert creates it (column defaults).
NewJobRow(pid, jobType, scheduledFor, jitter, recurrence, payload) ==
    [patient_id |-> pid, job_type |-> jobType, status |-> "PENDING",
     scheduled_for |-> scheduledFor, jitter_seconds |-> jitter,
     payload |-> payload, attempts |-> 0, max_attempts |-> DefaultMaxAttempts,
     last_error |-> NULL, recurrence |-> recurrence]

\* The IANA timezones of the patients and the time by which their local clock
\* is behind UTC, in ticks.
Timezones == {"America/New_York", "UTC"}
UtcOffset(timezone) == IF timezone = "UTC" THEN 0 ELSE 1

\* The HH:MM strings patients choose and the tick of the local day they name.
TimeStrings == {"08:00", "20:00"}
TickOfDay(timeStr) == IF timeStr = "08:00" THEN 0 ELSE 1

\* nextOccurrence: today's target time in the patient's timezone, or
\* tomorrow's when today's has passed, as a UTC instant.
nextOccurrence(timeStr, timezone, after) ==
    LET localNow == after - UtcOffset(timezone)
        localTarget == (localNow \div Day) * Day + TickOfDay(timeStr)
        target == IF localTarget <= localNow THEN localTarget + Day ELSE localTarget
    IN  target + UtcOffset(timezone)

\* scheduleDailyCheckin: the table after the insert of the recurring job.
scheduleDailyCheckin(table, pid, preferredTime, timezone, jitter) ==
    Append(table,
           NewJobRow(pid, "DAILY_CHECKIN",
                     nextOccurrence(preferredTime, timezone, now) + jitter,
                     jitter, "daily",
                     [preferred_time |-> preferredTime, timezone |-> timezone]))

\* scheduleOneShot: the table after the insert of a one-shot job.
scheduleOneShot(table, pid, jobType, scheduledFor, payload) ==
    Append(table, NewJobRow(pid, jobType, scheduledFor, 0, NULL, payload))

\* Rows whose row lock a running get_and_lock_due_jobs statement holds.
LockedBy(w) == workers[w].locked

\* A claim that takes no row locks (no FOR UPDATE SKIP LOCKED).
NoRowLocks(w, j) == FALSE

LockedByOther(w, j) == \E o \in WorkerIds \ {w} : j \in LockedBy(o)

\* WHERE status = 'PENDING' AND scheduled_for <= NOW() ... FOR UPDATE SKIP LOCKED:
\* the rows the CTE of worker w can take. (A row another statement has already
\* committed to PROCESSING fails the WHERE clause when it is re-checked.)
DueUnlocked(w) ==
    { j \in JobIds : /\ jobs[j].status = "PENDING"
                     /\ jobs[j].scheduled_for <= now
                     /\ ~LockedByOther(w, j) }

\* A claim without the ORDER BY: any job_limit of the due rows.
UnorderedDueBatches(w, limit) ==
    LET due == DueUnlocked(w)
        n == IF Cardinality(due) < limit THEN Cardinality(due) ELSE limit
    IN  { S \in SUBSET due : Cardinality(S) = n }

\* ORDER BY scheduled_for ASC LIMIT job_limit: the sets of rows the CTE may
\* return (rows with equal scheduled_for come in any order).
DueBatches(w, limit) ==
    LET due == DueUnlocked(w)
        n == IF Cardinality(due) < limit THEN Cardinality(due) ELSE limit
    IN  { S \in SUBSET due :
            /\ Cardinality(S) = n
            /\ \A j \in S, k \in due \ S :
                  jobs[j].scheduled_for <= jobs[k].scheduled_for }

\* batch: the claimed jobs whose processJob has not yet marked them; caught:
\* those whose processJob is in its catch block after markJobCompleted threw.
IdleWorker == [pc |-> "idle", limit |-> 0, locked |-> {}, batch |-> {}, caught |-> {}]

\* getDueJobs / get_and_lock_due_jobs, first phase: the CTE selects and locks.
\* A statement that finds no row locks nothing, updates nothing and returns
\* the empty set: the worker has no batch to process.
ClaimSelect(w, limit) ==
    /\ workers[w].pc = "idle"
    /\ \E S \in DueBatches(w, limit) :
          workers' = [workers EXCEPT ![w] =
              IF S = {} THEN IdleWorker
              ELSE [pc |-> "locked", limit |-> limit, locked |-> S, batch |-> {},
                    caught |-> {}]]
    /\ UNCHANGED <<now, patients, audit, calls, nCalls, nEnrolls, jobs, messages, parse, WebhookTables>>

\* get_and_lock_due_jobs, second phase: UPDATE ... SET status = 'PROCESSING'
\* ... RETURNING; the statement ends and its row locks are released.
ClaimUpdate(w) ==
    /\ workers[w].pc = "locked"
    /\ jobs' = [j \in JobIds |->
                  IF j \in workers[w].locked
                  THEN [jobs[j] EXCEPT !.status = "PROCESSING"] ELSE jobs[j]]
    /\ workers' = [workers EXCEPT ![w] =
          [pc |-> "processing", limit |-> 0, locked |-> {},
           batch |-> workers[w].locked, caught |-> {}]]
    /\ UNCHANGED <<now, patients, audit, calls, nCalls, nEnrolls, messages, parse, WebhookTables>>

\* A markJobCompleted that reschedules with the default timezone.
markCompletedDefaultZone(table, j, jitter) ==
    LET done == [table EXCEPT ![j].status = "COMPLETED"]
    IN  IF table[j].recurrence = "daily" /\ "preferred_time" \in DOMAIN table[j].payload
        THEN scheduleDailyCheckin(done, table[j].patient_id,
                                  table[j].payload.preferred_time,
                                  "America/New_York", jitter)
        ELSE done

\* markJobCompleted on a scheduled_jobs table: the table after the job is
\* marked and, when it recurs daily, after the next occurrence is scheduled
\* (job.payload.timezone || 'America/New_York').
markJobCompletedIn(table, j, jitter) ==
    LET done == [table EXCEPT ![j].status = "COMPLETED"]
        payload == table[j].payload
    IN  IF table[j].recurrence = "daily" /\ "preferred_time" \in DOMAIN payload
        THEN scheduleDailyCheckin(done, table[j].patient_id, payload.preferred_time,
                                  IF "timezone" \in DOMAIN payload
                                  THEN payload.timezone ELSE "America/New_York",
                                  jitter)
        ELSE done

\* markJobCompleted on the table as it stands.
markJobCompleted(j, jitter) == markJobCompletedIn(jobs, j, jitter)

\* A markJobFailed that still retries when newAttempts equals max_attempts.
markJobFailedOffByOne(j, errorMessage) ==
    LET newAttempts == jobs[j].attempts + 1
    IN  IF newAttempts <= jobs[j].max_attempts
        THEN [jobs EXCEPT ![j].status = "PENDING", ![j].attempts = newAttempts,
                          ![j].last_error = errorMessage,
                          ![j].scheduled_for = now + RetryBackoff]
        ELSE [jobs EXCEPT ![j].status = "FAILED", ![j].attempts = newAttempts,
                          ![j].last_error = errorMessage]

\* A markJobFailed that retries without moving scheduled_for.
markJobFailedNoBackoff(j, errorMessage) ==
    LET newAttempts == jobs[j].attempts + 1
    IN  IF newAttempts < jobs[j].max_attempts
        THEN [jobs EXCEPT ![j].status = "PENDING", ![j].attempts = newAttempts,
                          ![j].last_error = errorMessage]
        ELSE [jobs EXCEPT ![j].status = "FAILED", ![j].attempts = newAttempts,
                          ![j].last_error = errorMessage]

\* markJobFailed: retry with backoff below max_attempts, FAILED otherwise.
markJobFailed(j, errorMessage) ==
    LET newAttempts == jobs[j].attempts + 1
    IN  IF newAttempts < jobs[j].max_attempts
        THEN [jobs EXCEPT ![j].status = "PENDING", ![j].attempts = newAttempts,
                          ![j].last_error = errorMessage,
                          ![j].scheduled_for = now + RetryBackoff]
        ELSE [jobs EXCEPT ![j].status = "FAILED", ![j].attempts = newAttempts,
                          ![j].last_error = errorMessage]

\* A dispatcher in which the end of one job ends the processing of the batch.
AbortBatch(w, j) == IdleWorker

\* The batch of worker w once job j of it is resolved.
Resolved(w, j) ==
    IF workers[w].batch \cup workers[w].caught = {j} THEN IdleWorker
    ELSE [workers[w] EXCEPT !.batch = @ \ {j}, !.caught = @ \ {j}]

\* processJob, lines 607-610: the handler returned, the job is marked completed.
JobSucceeds(w, j, jitter) ==
    /\ workers[w].pc = "processing"
    /\ j \in workers[w].batch
    /\ jobs[j].recurrence = "daily" => Len(jobs) < MaxJobs
    /\ jobs' = markJobCompleted(j, jitter)
    /\ workers' = [workers EXCEPT ![w] = Resolved(w, j)]
    /\ UNCHANGED <<now, patients, audit, calls, nCalls, nEnrolls, messages, parse, WebhookTables>>

\* processJob, lines 612-615: the handler threw, the job is marked failed.
JobThrows(w, j) ==
    /\ workers[w].pc = "processing"
    /\ j \in workers[w].batch
    /\ jobs' = markJobFailed(j, "error")
    /\ workers' = [workers EXCEPT ![w] = Resolved(w, j)]
    /\ UNCHANGED <<now, patients, audit, calls, nCalls, nEnrolls, messages, parse, WebhookTables>>

\* A cancellation without the status filter: every job of the patient.
cancelEveryJob(table, pid) ==
    [j \in DOMAIN table |->
        IF table[j].patient_id = pid
        THEN [table[j] EXCEPT !.status = "CANCELLED"] ELSE table[j]]

\* cancelPatientJobs: UPDATE ... SET status = 'CANCELLED' WHERE patient_id AND
\* status = 'PENDING'. The statement waits for a row lock held on one of these
\* rows, so it runs when none of them is locked.
cancelPatientJobs(table, pid) ==
    [j \in DOMAIN table |->
        IF table[j].patient_id = pid /\ table[j].status = "PENDING"
        THEN [table[j] EXCEPT !.status = "CANCELLED"] ELSE table[j]]

CancelBlocked(pid) ==
    \E j \in JobIds, w \in WorkerIds :
        j \in LockedBy(w) /\ jobs[j].patient_id = pid /\ jobs[j].status = "PENDING"

CancelPatientJobs(pid) ==
    /\ ~CancelBlocked(pid)
    /\ \E j \in JobIds : jobs[j].patient_id = pid /\ jobs[j].status = "PENDING"
    /\ jobs' = cancelPatientJobs(jobs, pid)
    /\ UNCHANGED <<now, patients, audit, calls, nCalls, nEnrolls, workers, messages, parse, WebhookTables>>

\* A handler queues a one-shot job.
ScheduleOneShot(pid, jobType, scheduledFor) ==
    /\ Len(jobs) < MaxJobs
    /\ jobs' = scheduleOneShot(jobs, pid, jobType, scheduledFor, NoUpdates)
    /\ UNCHANGED <<now, patients, audit, calls, nCalls, nEnrolls, workers, messages, parse, WebhookTables>>

\* sendSMS: the row logged in the messages table.
SentMessage(pid, templateId) ==
    [patient_id |-> pid, template_id |-> templateId, sent_at |-> now]

\* A handler that has put the patient in DAILY_ACTIVE schedules the recurring
\* check-in at the patient's preferred time (activatePatient, handlePaused,
\* handleDormant, updatePatientTime).
ScheduleDailyCheckin(pid, jitter) ==
    /\ Len(jobs) < MaxJobs
    /\ pid \in DOMAIN patients
    /\ patients[pid].state = "DAILY_ACTIVE"
    /\ patients[pid].preferred_time \in TimeStrings
    /\ jobs' = scheduleDailyCheckin(jobs, pid, patients[pid].preferred_time,
                                    patients[pid].timezone, jitter)
    /\ UNCHANGED <<now, patients, audit, calls, nCalls, nEnrolls, workers, messages, parse, WebhookTables>>

\* A guard that does not look for today's entry.
SkippedWhenStale(patient, respondedToday) == patient.state # "DAILY_ACTIVE"

\* handleDailyCheckin, lines 642-665: TRUE when the handler returns without
\* sending the prompt: the patient is no longer DAILY_ACTIVE (stale job) or
\* has already responded today.
DailyCheckinSkipped(patient, respondedToday) ==
    patient.state # "DAILY_ACTIVE" \/ respondedToday

\* checkWeeklyQuestionDue: on days 7, 14, 21 and 28 a WEEKLY_QUESTION job is
\* queued for the next occurrence of the preferred time.
checkWeeklyQuestionDue(table, pid, patient) ==
    IF patient.day_count + 1 \in {7, 14, 21, 28}
    THEN scheduleOneShot(table, pid, "WEEKLY_QUESTION",
                         nextOccurrence(patient.preferred_time, patient.timezone, now),
                         [weekNumber |-> (patient.day_count + 1) \div 7])
    ELSE table

\* The messages lookup of checkMissedDays: a message of this template sent
\* to the patient within the last `window` ticks.
RecentlySent(pid, templateId, window) ==
    \E m \in messages :
        m.patient_id = pid /\ m.template_id = templateId /\ m.sent_at >= now - window

\* checkMissedDays: a RE_ENGAGEMENT job is queued at 3 and at 5 or more
\* consecutive missed days, unless that message went out recently.
checkMissedDays(table, pid, patient) ==
    LET missed == patient.consecutive_missed
        re3 == IF missed = 3 /\ ~RecentlySent(pid, "D-RE3", 3 * Day)
               THEN scheduleOneShot(table, pid, "RE_ENGAGEMENT", now, [type |-> "D-RE3"])
               ELSE table
    IN  IF missed >= 5 /\ ~RecentlySent(pid, "D-RE5", 5 * Day)
        THEN scheduleOneShot(re3, pid, "RE_ENGAGEMENT", now, [type |-> "D-RE5"])
        ELSE re3

\* processJob for a DAILY_CHECKIN job whose handler returns: the fresh read of
\* the patient, handleDailyCheckin and markJobCompleted, on a table that holds
\* at most maxRows rows.
DailyCheckinJob(w, j, respondedToday, jitter, maxRows) ==
    /\ workers[w].pc = "processing"
    /\ j \in workers[w].batch
    /\ jobs[j].job_type = "DAILY_CHECKIN"
    /\ jobs[j].patient_id \in DOMAIN patients
    /\ LET pid == jobs[j].patient_id
           patient == patients[pid]
           skipped == DailyCheckinSkipped(patient, respondedToday)
           queued == IF skipped THEN jobs
                     ELSE checkMissedDays(checkWeeklyQuestionDue(jobs, pid, patient),
                                          pid, patient)
           final == markJobCompletedIn(queued, j, jitter)
       IN  /\ Len(final) <= maxRows
           /\ jobs' = final
           /\ messages' = IF skipped THEN messages
                          ELSE messages \cup {SentMessage(pid, "D-1")}
    /\ workers' = [workers EXCEPT ![w] = Resolved(w, j)]
    /\ UNCHANGED <<now, patients, audit, calls, nCalls, nEnrolls, parse, WebhookTables>>

\* The step with the result of the daily_entries lookup left open.
ProcessDailyCheckin(w, j, respondedToday, jitter) ==
    DailyCheckinJob(w, j, respondedToday, jitter, MaxJobs)

\* checkMissedDays queues the re-engagement job of a patient whose check-in
\* was just sent: { type: 'D-RE3' } or { type: 'D-RE5' }, due at once.
ReEngagementTypes == {"D-RE3", "D-RE5"}
ScheduleReEngagement(pid, type) ==
    /\ Len(jobs) < MaxJobs
    /\ pid \in DOMAIN patients
    /\ patients[pid].state = "DAILY_ACTIVE"
    /\ jobs' = scheduleOneShot(jobs, pid, "RE_ENGAGEMENT", now, [type |-> type])
    /\ UNCHANGED <<now, patients, audit, calls, nCalls, nEnrolls, workers, messages, parse, WebhookTables>>

\* transitionState called by a handler while no other transition of the
\* patient is in flight: TRUE when the call passes the checks of steps 2-4.
TransitionApplies(pid, toState) ==
    LET fromState == SelectForTransition(pid).state
    IN  ~IsInvalidTransition(fromState, toState) /\ ~IsSameStateSkip(fromState, toState)

\* The patients table and the audit log such a call leaves.
PatientsAfterTransition(pid, toState, additionalUpdates) ==
    IF TransitionApplies(pid, toState)
    THEN [patients EXCEPT ![pid] =
            ApplyUpdates(@, BuildUpdates(SelectForTransition(pid), toState, additionalUpdates))]
    ELSE patients
AuditAfterTransition(pid, toState, triggerType) ==
    IF TransitionApplies(pid, toState)
    THEN Append(audit, AuditRow(pid, patients[pid].state, toState, triggerType))
    ELSE audit

\* A re-engagement handler that only ever sends the nudge (used to test C30).
ProcessReEngagementNudgeOnly(w, j) ==
    /\ workers[w].pc = "processing"
    /\ j \in workers[w].batch
    /\ jobs[j].job_type = "RE_ENGAGEMENT"
    /\ jobs[j].patient_id \in DOMAIN patients
    /\ messages' = messages \cup {SentMessage(jobs[j].patient_id, "D-RE3")}
    /\ jobs' = markJobCompletedIn(jobs, j, 0)
    /\ workers' = [workers EXCEPT ![w] = Resolved(w, j)]
    /\ UNCHANGED <<now, patients, audit, calls, nCalls, nEnrolls, parse, WebhookTables>>

\* processJob for a RE_ENGAGEMENT job whose handler returns: the fresh read of
\* the patient, handleReEngagement and markJobCompleted. For D-RE5 the handler
\* calls transitionState(PAUSED), whose result it does not look at, then
\* cancelPatientJobs, then sends D-RE5; for any other type it sends D-RE3.
ProcessReEngagement(w, j) ==
    /\ workers[w].pc = "processing"
    /\ j \in workers[w].batch
    /\ jobs[j].job_type = "RE_ENGAGEMENT"
    /\ jobs[j].patient_id \in DOMAIN patients
    /\ LET pid == jobs[j].patient_id
           payload == jobs[j].payload
           type == IF "type" \in DOMAIN payload THEN payload.type ELSE NULL
       IN  IF type = "D-RE5"
           THEN /\ patients' = PatientsAfterTransition(pid, "PAUSED", NoUpdates)
                /\ audit' = AuditAfterTransition(pid, "PAUSED", "SYSTEM_TIMER")
                /\ messages' = messages \cup {SentMessage(pid, "D-RE5")}
                /\ jobs' = markJobCompletedIn(cancelPatientJobs(jobs, pid), j, 0)
           ELSE /\ messages' = messages \cup {SentMessage(pid, "D-RE3")}
                /\ jobs' = markJobCompletedIn(jobs, j, 0)
                /\ UNCHANGED <<patients, audit>>
    /\ workers' = [workers EXCEPT ![w] = Resolved(w, j)]
    /\ UNCHANGED <<now, calls, nCalls, nEnrolls, parse, WebhookTables>>

\* Time passes.
Tick ==
    /\ now < MaxTime
    /\ now' = now + 1
    /\ UNCHANGED <<patients, audit, calls, nCalls, nEnrolls, jobs, workers, messages, parse, WebhookTables>>

(***************************************************************************)
(* api/enroll.js                                                           *)
(***************************************************************************)

\* The re-enrollment branch: .update({ state: 'ENROLLED', ... }).
ReEnrollUpdates ==
    [state |-> "ENROLLED", opted_out_at |-> <<>>, day_count |-> 0,
     consecutive_missed |-> 0, pending_question |-> NULL]

\* POST /api/enroll with a valid body for the phone number of patient pid.
Enroll(pid) ==
    /\ nEnrolls < MaxEnrolls
    /\ nEnrolls' = nEnrolls + 1
    /\ IF pid \in DOMAIN patients
       THEN IF patients[pid].state = "UNSUBSCRIBED"
            THEN /\ Len(jobs) < MaxJobs
                 /\ patients' = [patients EXCEPT ![pid] = ApplyUpdates(@, ReEnrollUpdates)]
                 /\ messages' = messages \cup {SentMessage(pid, "O-1")}
                 /\ jobs' = scheduleOneShot(jobs, pid, "ONBOARD_REMINDER", now + Day, NoUpdates)
                 /\ UNCHANGED audit
            ELSE \* 409: phone number already enrolled
                 UNCHANGED <<patients, audit, messages, jobs>>
       ELSE /\ Len(jobs) < MaxJobs
            /\ patients' = [p \in DOMAIN patients \cup {pid} |->
                              IF p = pid THEN NewPatientRow ELSE patients[p]]
            /\ audit' = Append(audit, AuditRow(pid, "ENROLLED", "ENROLLED", "ADMIN_ACTION"))
            /\ messages' = messages \cup {SentMessage(pid, "O-1")}
            /\ jobs' = scheduleOneShot(jobs, pid, "ONBOARD_REMINDER", now + Day, NoUpdates)
    /\ UNCHANGED <<now, calls, nCalls, workers, parse, WebhookTables>>

\* The tables before the requests explored: the subject has no row yet, or
\* has a row in any lifecycle state.
Init ==
    /\ now = 0
    /\ \/ patients = [p \in {} |-> NewPatientRow]
       \/ \E s \in States : patients = [p \in SubjectIds |-> InitialRow(s)]
    /\ audit = <<>>
    /\ calls = [c \in CallerIds |-> IdleCall]
    /\ nCalls = 0
    /\ nEnrolls = 0
    /\ jobs = <<>>
    /\ workers = [w \in WorkerIds |-> IdleWorker]
    /\ messages = {}
    /\ parse = NoParse
    /\ NoWebhookRows

Next ==
    \/ \E c \in CallerIds, pid \in SubjectIds, toState \in States :
          \E upd \in AdditionalUpdateChoices(toState) :
            TS_Begin(c, pid, toState, TriggerOf(c), upd)
    \/ \E c \in CallerIds : TS_Update(c)
    \/ \E c \in CallerIds : TS_UpdateFails(c)
    \/ \E c \in CallerIds : TS_Audit(c)
    \/ \E c \in CallerIds : TS_AuditFails(c)
    \/ \E c \in CallerIds : TS_Return(c)
    \/ \E pid \in SubjectIds : Enroll(pid)

Spec == Init /\ [][Next]_vars

\* The job queue: producers, the dispatcher's claim and the resolution of jobs.
NextJobs ==
    \/ \E pid \in PatientIds, t \in {now, now + Day} :
          ScheduleOneShot(pid, "RE_ENGAGEMENT", t)
    \/ \E w \in WorkerIds, limit \in JobLimits : ClaimSelect(w, limit)
    \/ \E w \in WorkerIds : ClaimUpdate(w)
    \/ \E w \in WorkerIds, j \in JobIds, jitter \in 0 .. MaxJitter : JobSucceeds(w, j, jitter)
    \/ \E w \in WorkerIds, j \in JobIds : JobThrows(w, j)
    \/ \E pid \in PatientIds : CancelPatientJobs(pid)
    \/ Tick

\* The job queue starts empty, with every patient enrolled and active.
InitJobs ==
    /\ now = 0
    /\ patients = [p \in PatientIds |-> InitialRow("DAILY_ACTIVE")]
    /\ audit = <<>>
    /\ calls = [c \in CallerIds |-> IdleCall]
    /\ nCalls = 0
    /\ nEnrolls = 0
    /\ jobs = <<>>
    /\ workers = [w \in WorkerIds |-> IdleWorker]
    /\ messages = {}
    /\ parse = NoParse
    /\ NoWebhookRows

SpecJobs == InitJobs /\ [][NextJobs]_vars

\* The dispatcher and the commands that pause and stop a patient: the patient
\* is active, with a preferred time, in either timezone.
InitDispatch ==
    /\ now = 0
    /\ \E tz \in Timezones :
          patients = [p \in SubjectIds |->
                        [InitialRow("DAILY_ACTIVE") EXCEPT !.timezone = tz,
                                                          !.preferred_time = "08:00"]]
    /\ audit = <<>>
    /\ calls = [c \in CallerIds |-> IdleCall]
    /\ nCalls = 0
    /\ nEnrolls = 0
    /\ jobs = <<>>
    /\ workers = [w \in WorkerIds |-> IdleWorker]
    /\ messages = {}
    /\ parse = NoParse
    /\ NoWebhookRows

\* The states the PAUSE and STOP commands ask for.
CommandStates == {"PAUSED", "UNSUBSCRIBED"}

\* handleGlobalCommands, STOP and PAUSE: the transitionState call of the
\* command, taken as one step since no other transition is in flight here.
\* PAUSE is ignored unless the patient is DAILY_ACTIVE. The cancelPatientJobs
\* call that follows it is the step CancelPatientJobs.
CommandTransition(pid, toState) ==
    /\ pid \in DOMAIN patients
    /\ toState = "PAUSED" => patients[pid].state = "DAILY_ACTIVE"
    /\ LET patient == SelectForTransition(pid)
           fromState == patient.state
       IN  /\ ~IsInvalidTransition(fromState, toState)
           /\ ~IsSameStateSkip(fromState, toState)
           /\ patients' = [patients EXCEPT ![pid] =
                  ApplyUpdates(@, BuildUpdates(patient, toState, NoUpdates))]
           /\ audit' = Append(audit, AuditRow(pid, fromState, toState, TriggerOf("c1")))
    /\ UNCHANGED <<now, calls, nCalls, nEnrolls, jobs, workers, messages, parse, WebhookTables>>

\* One dispatcher invocation at a time claims with the table size as limit;
\* the webhook (c1) handles the commands.
NextDispatch ==
    \/ \E pid \in SubjectIds, jitter \in 0 .. MaxJitter : ScheduleDailyCheckin(pid, jitter)
    \/ \E pid \in SubjectIds, type \in ReEngagementTypes : ScheduleReEngagement(pid, type)
    \/ ClaimSelect("w1", MaxJobs)
    \/ ClaimUpdate("w1")
    \/ \E j \in JobIds, respondedToday \in BOOLEAN, jitter \in 0 .. MaxJitter :
          ProcessDailyCheckin("w1", j, respondedToday, jitter)
    \/ \E j \in JobIds : ProcessReEngagement("w1", j)
    \/ \E j \in JobIds : JobThrows("w1", j)
    \/ \E pid \in SubjectIds, toState \in CommandStates : CommandTransition(pid, toState)
    \/ \E pid \in SubjectIds : CancelPatientJobs(pid)
    \/ Tick

SpecDispatch == InitDispatch /\ [][NextDispatch]_vars

\* The dispatcher on a datastore whose statements can return an error.
\* supabase-js reports a failed statement in { error } and does not throw.

\* processJob, line 610, and markJobCompleted, lines 357-370: the handler
\* returned and the UPDATE that marks the job returns an error, which is
\* logged; markJobCompleted returns null and processJob ends.
MarkCompletedFails(w, j) ==
    /\ workers[w].pc = "processing"
    /\ j \in workers[w].batch
    /\ workers' = [workers EXCEPT ![w] = Resolved(w, j)]
    /\ UNCHANGED <<now, patients, audit, calls, nCalls, nEnrolls, jobs, messages, parse, WebhookTables>>

\* markJobCompleted, lines 357-379, and scheduleDailyCheckin, lines 298-301:
\* the job is marked COMPLETED, then the insert of the next occurrence
\* returns an error, which scheduleDailyCheckin throws: processJob enters its
\* catch block.
RescheduleFails(w, j) ==
    /\ workers[w].pc = "processing"
    /\ j \in workers[w].batch
    /\ jobs[j].recurrence = "daily"
    /\ "preferred_time" \in DOMAIN jobs[j].payload
    /\ jobs' = [jobs EXCEPT ![j].status = "COMPLETED"]
    /\ workers' = [workers EXCEPT ![w].batch = @ \ {j}, ![w].caught = @ \cup {j}]
    /\ UNCHANGED <<now, patients, audit, calls, nCalls, nEnrolls, messages, parse, WebhookTables>>

\* processJob, lines 612-615: the catch block calls markJobFailed.
CatchMarksFailed(w, j) ==
    /\ workers[w].pc = "processing"
    /\ j \in workers[w].caught
    /\ jobs' = markJobFailed(j, "error")
    /\ workers' = [workers EXCEPT ![w] = Resolved(w, j)]
    /\ UNCHANGED <<now, patients, audit, calls, nCalls, nEnrolls, messages, parse, WebhookTables>>

\* markJobFailed, lines 389-395 and 402-421: the SELECT returns no row
\* (if (!job) return null), or the UPDATE returns an error that is not read.
MarkFailedFails(w, j) ==
    /\ workers[w].pc = "processing"
    /\ j \in workers[w].batch \cup workers[w].caught
    /\ workers' = [workers EXCEPT ![w] = Resolved(w, j)]
    /\ UNCHANGED <<now, patients, audit, calls, nCalls, nEnrolls, jobs, messages, parse, WebhookTables>>

\* One dispatcher invocation at a time, on a queue of daily check-ins and
\* one-shot jobs of an active patient.
Dispatching(w) ==
    \/ ClaimUpdate(w)
    \/ \E j \in JobIds, jitter \in 0 .. MaxJitter : JobSucceeds(w, j, jitter)
    \/ \E j \in JobIds : JobThrows(w, j)
    \/ \E j \in JobIds : MarkCompletedFails(w, j)
    \/ \E j \in JobIds : RescheduleFails(w, j)
    \/ \E j \in JobIds : CatchMarksFailed(w, j)
    \/ \E j \in JobIds : MarkFailedFails(w, j)

NextFaults ==
    \/ \E pid \in SubjectIds, jitter \in 0 .. MaxJitter : ScheduleDailyCheckin(pid, jitter)
    \/ \E pid \in SubjectIds : ScheduleOneShot(pid, "RE_ENGAGEMENT", now)
    \/ ClaimSelect("w1", MaxJobs)
    \/ Dispatching("w1")
    \/ \E pid \in SubjectIds : CancelPatientJobs(pid)
    \/ Tick

SpecFaults == InitDispatch /\ [][NextFaults]_vars

\* A claimed batch is processed to its end (Promise.allSettled over
\* processJob): the dispatcher's steps are taken when they can be.
SpecFaultsFair == SpecFaults /\ WF_vars(Dispatching("w1"))

(***************************************************************************)
(* docs/parse-time.js: the response parser (lib/ai/parser)                 *)
(***************************************************************************)

\* Bound: the longest message explored, in tokens.
MaxLen == 3

\* A message is a sequence of tokens: the blank, or a run of word characters
\* (a digit or a word). Two adjacent tokens other than the blank form one
\* longer run of word characters, as "1" "3" is the text "13".
Tokens == {" ", "1", "2", "3", "4", "5", "6", "level", "Fine", "worst", "call"}
Texts == UNION {[1 .. n -> Tokens] : n \in 0 .. MaxLen}

\* The digits of the character class [1-5], and parseInt on them.
Digits == {"1", "2", "3", "4", "5"}
parseInt(digit) ==
    CASE digit = "1" -> 1 [] digit = "2" -> 2 [] digit = "3" -> 3
      [] digit = "4" -> 4 [] digit = "5" -> 5

\* String.prototype.trim: the blanks at both ends are removed.
RECURSIVE trimStart(_)
trimStart(text) ==
    IF text # <<>> /\ Head(text) = " " THEN trimStart(Tail(text)) ELSE text

RECURSIVE trimEnd(_)
trimEnd(text) ==
    IF text # <<>> /\ text[Len(text)] = " "
    THEN trimEnd(SubSeq(text, 1, Len(text) - 1))
    ELSE text

\* A parser that reads the text as it came (used to test the numeric rule).
noTrim(text) == text

trim(text) == trimEnd(trimStart(text))

\* String.prototype.toLowerCase, token by token.
toLowerCase(text) ==
    [i \in 1 .. Len(text) |-> IF text[i] = "Fine" THEN "fine" ELSE text[i]]

\* cleaned.match(/^([1-5])$/): the text is one digit of 1..5 and nothing else.
numericMatch(cleaned) == Len(cleaned) = 1 /\ cleaned[1] \in Digits

\* Confidence is counted in hundredths: 0.80 is 80.
CONFIDENCE_ACCEPT == 80
CONFIDENCE_CLARIFY == 60

\* A routing whose bands exclude their lower bound (used to test C19).
routeAboveThreshold(confidence) ==
    IF confidence > CONFIDENCE_ACCEPT THEN "ACCEPT"
    ELSE IF confidence > CONFIDENCE_CLARIFY THEN "CLARIFY"
    ELSE "REPROMPT"

\* A routing that accepts every classification.
routeAlwaysAccept(confidence) == "ACCEPT"

routeByConfidence(confidence) ==
    IF confidence >= CONFIDENCE_ACCEPT THEN "ACCEPT"
    ELSE IF confidence >= CONFIDENCE_CLARIFY THEN "CLARIFY"
    ELSE "REPROMPT"

\* \b of the regular expressions: a token other than the blank starts, or
\* ends, a word when its neighbour on that side is a blank or the text's end.
WordStart(text, i) == text[i] # " " /\ (i = 1 \/ text[i - 1] = " ")
WordEnd(text, i) == text[i] # " " /\ (i = Len(text) \/ text[i + 1] = " ")

\* The phrase occurs in the text between two word boundaries.
PhraseAt(text, i, phrase) ==
    /\ i + Len(phrase) - 1 <= Len(text)
    /\ SubSeq(text, i, i + Len(phrase) - 1) = phrase
    /\ WordStart(text, i)
    /\ WordEnd(text, i + Len(phrase) - 1)

\* regex.test(lower) for a pattern \b(alt1|alt2|...)\b.
Matches(text, phrases) ==
    \E i \in 1 .. Len(text) : \E phrase \in phrases : PhraseAt(text, i, phrase)

\* The first token at or after position i that is not a blank (0: none).
RECURSIVE NextNonSpace(_, _)
NextNonSpace(text, i) ==
    IF i > Len(text) THEN 0
    ELSE IF text[i] = " " THEN NextNonSpace(text, i + 1)
    ELSE i

\* /\b(?:level|a|was|it's|its)\s*([1-5])\b/ matches with its prefix at i.
EmbeddedPrefixes == {"level", "a", "was", "it's", "its"}
EmbeddedNumAt(text, i) ==
    /\ text[i] \in EmbeddedPrefixes
    /\ WordStart(text, i)
    /\ LET j == NextNonSpace(text, i + 1)
       IN  j # 0 /\ text[j] \in Digits /\ WordEnd(text, j)

\* The alternatives of the keyword patterns of regexFallback, in tokens. An
\* optional or wildcard character of a pattern is written out in the forms
\* that consist of word characters and single blanks.
Level1Phrases ==
    {<<"no", " ", "headache">>, <<"headachefree">>, <<"didnt", " ", "notice">>,
     <<"clear">>, <<"clear", " ", "head">>, <<"perfect">>, <<"amazing">>,
     <<"great", " ", "day">>, <<"good", " ", "day">>, <<"no", " ", "complaints">>,
     <<"feeling", " ", "good">>, <<"all", " ", "good">>}
Level5Phrases ==
    {<<"in", " ", "bed">>, <<"couldnt", " ", "function">>,
     <<"couldnt", " ", "do", " ", "anything">>, <<"worst">>, <<"debilitating">>,
     <<"bedridden">>, <<"couldnt", " ", "move">>, <<"couldnt", " ", "get", " ", "up">>,
     <<"terrible">>}
Level4Phrases ==
    {<<"cancel">>, <<"skipped">>, <<"skip">>, <<"left", " ", "early">>,
     <<"couldnt", " ", "go">>, <<"had", " ", "to", " ", "leave">>,
     <<"called", " ", "out">>, <<"called", " ", "off">>,
     <<"called", " ", "in", " ", "sick">>, <<"went", " ", "home">>,
     <<"missed", " ", "work">>, <<"missed", " ", "school">>}
Level3Phrases ==
    {<<"push", " ", "through">>, <<"pushed", " ", "through">>, <<"pushthrough">>,
     <<"rough">>, <<"managed">>, <<"got", " ", "through">>, <<"tough", " ", "day">>,
     <<"struggled">>, <<"hard", " ", "day">>, <<"powered", " ", "through">>}
Medications ==
    {"excedrin", "tylenol", "advil", "ibuprofen", "aleve", "imitrex",
     "sumatriptan", "triptan", "medication", "medicine", "pill", "med"}
MedicationPhrases ==
    {<<"took", " ", m>> : m \in Medications}
      \cup {<<"took", " ", article, " ", m>> : article \in {"a", "an"}, m \in Medications}
Level2Phrases ==
    {<<"mild">>, <<"background">>, <<"there", " ", "but">>, <<"noticed", " ", "but">>,
     <<"slight">>, <<"dull">>, <<"lowgrade">>, <<"lingering">>, <<"nagging">>}
AmbiguousPhrases ==
    {<<"fine">>, <<"okay">>, <<"ok">>, <<"not", " ", "bad">>, <<"decent">>,
     <<"alright">>, <<"good">>, <<"soso">>, <<"so", " ", "so">>, <<"meh">>,
     <<"not", " ", "great">>}

\* The patterns without the no-headache group.
regexWithoutLevel1(text) ==
    LET lower == trim(toLowerCase(text))
        embedded == {i \in 1 .. Len(lower) : EmbeddedNumAt(lower, i)}
        first == CHOOSE i \in embedded : \A k \in embedded : i <= k
        Hit(level, confidence) == <<[level |-> level, confidence |-> confidence]>>
    IN  IF embedded # {}
        THEN Hit(parseInt(lower[NextNonSpace(lower, first + 1)]), 90)
        ELSE IF Matches(lower, Level5Phrases) THEN Hit(5, 88)
        ELSE IF Matches(lower, Level4Phrases) THEN Hit(4, 85)
        ELSE IF Matches(lower, Level3Phrases) THEN Hit(3, 83)
        ELSE IF Matches(lower, MedicationPhrases) THEN Hit(3, 75)
        ELSE IF Matches(lower, Level2Phrases) THEN Hit(2, 82)
        ELSE IF Matches(lower, AmbiguousPhrases) THEN Hit(2, 65)
        ELSE <<>>

\* regexFallback(text): the classification of the first pattern that matches,
\* as <<[level, confidence]>>, or <<>> for null.
regexFallback(text) ==
    LET lower == trim(toLowerCase(text))
        embedded == {i \in 1 .. Len(lower) : EmbeddedNumAt(lower, i)}
        first == CHOOSE i \in embedded : \A k \in embedded : i <= k
        Hit(level, confidence) == <<[level |-> level, confidence |-> confidence]>>
    IN  IF embedded # {}
        THEN Hit(parseInt(lower[NextNonSpace(lower, first + 1)]), 90)
        ELSE IF Matches(lower, Level1Phrases) THEN Hit(1, 85)
        ELSE IF Matches(lower, Level5Phrases) THEN Hit(5, 88)
        ELSE IF Matches(lower, Level4Phrases) THEN Hit(4, 85)
        ELSE IF Matches(lower, Level3Phrases) THEN Hit(3, 83)
        ELSE IF Matches(lower, MedicationPhrases) THEN Hit(3, 75)
        ELSE IF Matches(lower, Level2Phrases) THEN Hit(2, 82)
        ELSE IF Matches(lower, AmbiguousPhrases) THEN Hit(2, 65)
        ELSE <<>>

\* What the external classifier does when it is called: the call throws (no
\* API key, outage), is aborted at the timeout, answers without the tool
\* block, or answers with a level and a confidence. The confidence of a
\* reply is in thousandths, so that the rounding to two decimals is visible;
\* the values avoid the half-way points, where the result depends on the
\* binary representation of the number.
AiFailures == {"throws", "timeout", "no_tool_use"}
AiLevels == {0, 1, 5, 6}
AiConfidences == {0 - 1, 0, 594, 596, 794, 796, 1000, 1001}
AiOutcomes ==
    {[kind |-> "reply", level |-> l, confidence |-> c] :
        l \in AiLevels, c \in AiConfidences}
      \cup {[kind |-> k, level |-> 0, confidence |-> 0] : k \in AiFailures}

\* A classifier that counts a low-confidence reply as a failed call (used to
\* test C20).
classifyOrRejectLowConfidence(ai) ==
    IF ai.kind = "reply" /\ ai.level \in 1 .. 5
       /\ ai.confidence >= 10 * CONFIDENCE_CLARIFY /\ ai.confidence <= 1000
    THEN <<[level |-> ai.level, confidence |-> (ai.confidence + 5) \div 10]>>
    ELSE <<>>

\* A classifier that returns whatever the collaborator replied, without the
\* range checks (used to test C21).
classifyUnvalidated(ai) ==
    IF ai.kind # "reply" THEN <<>>
    ELSE <<[level |-> ai.level, confidence |-> (ai.confidence + 5) \div 10]>>

\* classifyWithAI(text) when the collaborator does ai: <<[level, confidence]>>
\* with the confidence rounded to hundredths, or <<>> when the call throws.
classifyWithAI(ai) ==
    IF ai.kind # "reply" THEN <<>>
    ELSE IF ai.level < 1 \/ ai.level > 5 THEN <<>>
    ELSE IF ai.confidence < 0 \/ ai.confidence > 1000 THEN <<>>
    ELSE <<[level |-> ai.level, confidence |-> (ai.confidence + 5) \div 10]>>

\* The value parseResponse resolves to: <<>> for null, or <<ParseResult>>.
ParseResult(classified, method, action) ==
    <<[level |-> classified.level, confidence |-> classified.confidence,
       method |-> method, action |-> action]>>

\* The calls explored: parseResponse(text) for a string or for a value that
\* is not a string, with what the collaborator does if it is called; and
\* routeByConfidence(confidence) for every confidence in hundredths.
ParseInputs ==
    {[isString |-> TRUE, text |-> t] : t \in Texts}
      \cup {[isString |-> FALSE, text |-> <<>>]}
ParseCalls ==
    {[kind |-> "parseResponse", input |-> in, ai |-> ai, pc |-> "start",
      aiCalled |-> FALSE, regexCalled |-> FALSE, result |-> <<>>] :
        in \in ParseInputs, ai \in AiOutcomes}
RouteCalls ==
    {[kind |-> "routeByConfidence", confidence |-> c, pc |-> "start",
      result |-> "NULL"] : c \in 0 .. 100}

ParseStarts == parse.kind = "parseResponse" /\ parse.pc = "start"
Cleaned == trim(parse.input.text)
OtherTables ==
    <<now, patients, audit, calls, nCalls, nEnrolls, jobs, workers, messages, WebhookTables>>

\* parseResponse: if (!text || typeof text !== 'string') return null;
\* if (!cleaned) return null.
RejectInput ==
    /\ ParseStarts
    /\ ~parse.input.isString \/ Cleaned = <<>>
    /\ parse' = [parse EXCEPT !.pc = "done", !.result = <<>>]
    /\ UNCHANGED OtherTables

\* parseResponse, step 1: the numeric check.
NumericPassthrough ==
    /\ ParseStarts
    /\ parse.input.isString
    /\ numericMatch(Cleaned)
    /\ parse' = [parse EXCEPT
                   !.pc = "done",
                   !.result = ParseResult([level |-> parseInt(Cleaned[1]), confidence |-> 100],
                                          "NUMERIC", "ACCEPT")]
    /\ UNCHANGED OtherTables

\* parseResponse, step 2: the external classification returns.
AiParsed ==
    /\ ParseStarts
    /\ parse.input.isString
    /\ Cleaned # <<>> /\ ~numericMatch(Cleaned)
    /\ classifyWithAI(parse.ai) # <<>>
    /\ LET aiResult == classifyWithAI(parse.ai)[1]
       IN  parse' = [parse EXCEPT
                       !.pc = "done",
                       !.aiCalled = TRUE,
                       !.result = ParseResult(aiResult, "AI_PARSED",
                                              routeByConfidence(aiResult.confidence))]
    /\ UNCHANGED OtherTables

\* parseResponse, steps 3 and 4: the external classification throws, and the
\* catch block asks the regex fallback.
FallbackToRegex ==
    /\ ParseStarts
    /\ parse.input.isString
    /\ Cleaned # <<>> /\ ~numericMatch(Cleaned)
    /\ classifyWithAI(parse.ai) = <<>>
    /\ LET regexResult == regexFallback(Cleaned)
       IN  parse' = [parse EXCEPT
                       !.pc = "done",
                       !.aiCalled = TRUE,
                       !.regexCalled = TRUE,
                       !.result = IF regexResult # <<>>
                                  THEN ParseResult(regexResult[1], "REGEX_FALLBACK",
                                                   routeByConfidence(regexResult[1].confidence))
                                  ELSE <<>>]
    /\ UNCHANGED OtherTables

\* routeByConfidence called on its own, as the exported function.
RouteByConfidence ==
    /\ parse.kind = "routeByConfidence"
    /\ parse.pc = "start"
    /\ parse' = [parse EXCEPT !.pc = "done", !.result = routeByConfidence(parse.confidence)]
    /\ UNCHANGED OtherTables

\* regexFallback called on its own: the texts are up to MaxSnippets phrases,
\* one or none from each pattern group, joined by single spaces.
MaxSnippets == 2
Snippets ==
    {<<"level", " ", "3">>, <<"perfect">>, <<"good", " ", "day">>, <<"worst">>,
     <<"cancel">>, <<"rough">>, <<"took", " ", "tylenol">>, <<"mild">>, <<"Fine">>,
     <<"call">>}
RECURSIVE JoinSnippets(_)
JoinSnippets(snippets) ==
    IF Len(snippets) = 0 THEN <<>>
    ELSE IF Len(snippets) = 1 THEN snippets[1]
    ELSE snippets[1] \o <<" ">> \o JoinSnippets(Tail(snippets))
RegexCalls ==
    {[kind |-> "regexFallback", text |-> JoinSnippets(snippets), pc |-> "start",
      result |-> <<>>] :
        snippets \in UNION {[1 .. n -> Snippets] : n \in 0 .. MaxSnippets}}

CallRegexFallback ==
    /\ parse.kind = "regexFallback"
    /\ parse.pc = "start"
    /\ parse' = [parse EXCEPT !.pc = "done", !.result = regexFallback(parse.text)]
    /\ UNCHANGED OtherTables

InitParse ==
    /\ now = 0
    /\ patients = [p \in {} |-> NewPatientRow]
    /\ audit = <<>>
    /\ calls = [c \in CallerIds |-> IdleCall]
    /\ nCalls = 0
    /\ nEnrolls = 0
    /\ jobs = <<>>
    /\ workers = [w \in WorkerIds |-> IdleWorker]
    /\ messages = {}
    /\ NoWebhookRows
    /\ parse \in ParseCalls \cup RouteCalls \cup RegexCalls

NextParse ==
    \/ RejectInput
    \/ NumericPassthrough
    \/ AiParsed
    \/ FallbackToRegex
    \/ RouteByConfidence
    \/ CallRegexFallback

SpecParse == InitParse /\ [][NextParse]_vars

(***************************************************************************)
(* api/webhooks/twilio.js and lib/handlers/state-handlers.js: the inbound  *)
(* SMS webhook                                                             *)
(***************************************************************************)

\* Bound: the deliveries of inbound messages explored.
MaxInbound == 4

\* The recorded days that complete a sprint: the 30 of the source, scaled as
\* the day is scaled to ticks.
SprintDays == 2

\* The message bodies the provider delivers, in tokens. "8" "am" is the text
\* "8am". None is HELP, INFO, TIME or REPORT, none is a date, none has the
\* characters . or #.
Bodies ==
    {<<"START">>, <<"stop">>, <<"PAUSE">>, <<"YES">>, <<"NO">>, <<"8", "am">>,
     <<"2">>, <<" ", "3">>, <<"Fine">>, <<"worst">>, <<"call">>, <<" ">>}

\* What the external classifier does during a delivery, if it is called: the
\* call is aborted, or it replies level 5 with a confidence in each band, or
\* with a malformed level.
InboundAiOutcomes ==
    {[kind |-> "timeout", level |-> 0, confidence |-> 0],
     [kind |-> "reply", level |-> 5, confidence |-> 796],
     [kind |-> "reply", level |-> 5, confidence |-> 596],
     [kind |-> "reply", level |-> 5, confidence |-> 594],
     [kind |-> "reply", level |-> 6, confidence |-> 796]}

\* String.prototype.toUpperCase, token by token.
toUpperCase(text) ==
    [i \in 1 .. Len(text) |->
        CASE text[i] = "stop" -> "STOP"
          [] text[i] = "Fine" -> "FINE"
          [] text[i] = "worst" -> "WORST"
          [] text[i] = "call" -> "CALL"
          [] text[i] = "level" -> "LEVEL"
          [] text[i] = "am" -> "AM"
          [] OTHER -> text[i]]

\* The hours a message names with one token, and formatResult(h, 0).time24.
HourOf(token) ==
    CASE token = "1" -> 1 [] token = "2" -> 2 [] token = "3" -> 3
      [] token = "4" -> 4 [] token = "5" -> 5 [] token = "8" -> 8
HourTokens == {"1", "2", "3", "4", "5", "8"}
Time24 ==
    <<"00:00", "01:00", "02:00", "03:00", "04:00", "05:00", "06:00", "07:00",
      "08:00", "09:00", "10:00", "11:00", "12:00", "13:00", "14:00", "15:00",
      "16:00", "17:00", "18:00", "19:00", "20:00", "21:00", "22:00", "23:00">>
formatResult(h) == <<Time24[h + 1]>>

to24(hours, period) ==
    IF period = "am"
    THEN IF hours = 12 THEN 0 ELSE hours
    ELSE IF hours = 12 THEN 12 ELSE hours + 12

guessAmPm(hours) ==
    IF hours >= 1 /\ hours <= 6 THEN hours + 12 ELSE hours

\* parseTime(input): <<time24>>, or <<>> for null. The patterns with minutes
\* need a colon or three digits, which no token has.
parseTime(input) ==
    LET text == toLowerCase(trim(input))
        period == text[Len(text)]
    IN  IF text = <<"am">> THEN formatResult(8)
        ELSE IF /\ Len(text) \in {2, 3}
                /\ text[1] \in HourTokens
                /\ period \in {"am", "pm"}
                /\ Len(text) = 3 => text[2] = " "
        THEN formatResult(to24(HourOf(text[1]), period))
        ELSE IF Len(text) = 1 /\ text[1] \in HourTokens
        THEN formatResult(guessAmPm(HourOf(text[1])))
        ELSE <<>>

\* parseFuzzyDate(text): null for every message explored, as none has the
\* form "March 15", "3/15" or "3-15".
parseFuzzyDate(text) == <<>>

\* parseNumericLevel(text): <<level>> for a clean 1-5, with an optional
\* leading "level", or <<>> for null.
parseNumericLevel(text) ==
    LET cleaned == trim(text)
        stripped == IF cleaned # <<>> /\ toLowerCase(cleaned)[1] = "level"
                    THEN trimStart(Tail(cleaned)) ELSE cleaned
    IN  IF Len(stripped) = 1 /\ stripped[1] \in Digits
        THEN <<parseInt(stripped[1])>> ELSE <<>>

\* parseResponse(input) when the collaborator does ai, as one call: <<>> for
\* null, or <<ParseResult>>. The input is a string of tokens or a value that
\* is not a string.
parseResponse(input, ai) ==
    LET cleaned == trim(input.text)
        aiResult == classifyWithAI(ai)
        regexResult == regexFallback(cleaned)
    IN  IF ~input.isString \/ input.text = <<>> THEN <<>>
        ELSE IF cleaned = <<>> THEN <<>>
        ELSE IF numericMatch(cleaned)
        THEN ParseResult([level |-> parseInt(cleaned[1]), confidence |-> 100],
                         "NUMERIC", "ACCEPT")
        ELSE IF aiResult # <<>>
        THEN ParseResult(aiResult[1], "AI_PARSED", routeByConfidence(aiResult[1].confidence))
        ELSE IF regexResult # <<>>
        THEN ParseResult(regexResult[1], "REGEX_FALLBACK",
                         routeByConfidence(regexResult[1].confidence))
        ELSE <<>>

\* A message body, as the string the handlers pass on.
String(text) == [isString |-> TRUE, text |-> text]

\* The tables a request reads and writes, as one value that the calls of a
\* handler pass along.
Db ==
    [patients |-> patients, audit |-> audit, jobs |-> jobs, sprints |-> sprints,
     entries |-> entries, medications |-> medications]

\* What a handler leaves: the tables, the templates of its replies, and
\* whether it called parseResponse, with the value the call resolved to.
NotParsed == [called |-> FALSE, result |-> <<>>]
Result(db, replies) == [db |-> db, replies |-> replies, parsed |-> NotParsed]

\* supabase.from('patients').update(upd).eq('patient_id', pid).
updatePatient(db, pid, upd) ==
    [db EXCEPT !.patients[pid] = ApplyUpdates(@, upd)]

\* transitionState(pid, toState, triggerType, reason, additionalUpdates) as
\* one call whose datastore statements succeed.
transitionState(db, pid, toState, triggerType, additionalUpdates) ==
    LET patient == [patient_id |-> pid, state |-> db.patients[pid].state]
    IN  IF \/ IsInvalidTransition(patient.state, toState)
           \/ IsSameStateSkip(patient.state, toState)
        THEN db
        ELSE [db EXCEPT
                !.patients[pid] = ApplyUpdates(@, BuildUpdates(patient, toState, additionalUpdates)),
                !.audit = Append(@, AuditRow(pid, patient.state, toState, triggerType))]

\* The row of an insert into sprints: status defaults to ACTIVE.
NewSprintRow(pid) ==
    [patient_id |-> pid, status |-> "ACTIVE", days_completed |-> 0,
     report_generated |-> FALSE]

insertSprint(db, pid) == [db EXCEPT !.sprints = Append(@, NewSprintRow(pid))]

\* .from('sprints').select('*').eq('patient_id', pid).eq('status', 'ACTIVE')
ActiveSprints(table, pid) ==
    {s \in DOMAIN table : table[s].patient_id = pid /\ table[s].status = "ACTIVE"}

\* An insert without the conflict clause: every call adds a row.
insertEntry(rows, row) == rows \cup {row}

\* INSERT ... ON CONFLICT (patient_id, sprint_id, entry_date) DO UPDATE: the
\* row of the key is replaced in the columns of the SET clause, which leaves
\* day_number as it was.
upsertEntry(rows, row) ==
    LET existing == {e \in rows : /\ e.patient_id = row.patient_id
                                  /\ e.sprint_id = row.sprint_id
                                  /\ e.entry_date = row.entry_date}
    IN  IF existing = {} THEN rows \cup {row}
        ELSE (rows \ existing)
               \cup {[row EXCEPT !.day_number = e.day_number] : e \in existing}

\* The function record_daily_entry: the upsert, then days_completed of the
\* sprint and day_count of the patient counted from the rows.
record_daily_entry(db, pid, sprintId, entryDate, level, method, confidence, dayNumber) ==
    LET row == [patient_id |-> pid, sprint_id |-> sprintId, entry_date |-> entryDate,
                hv_fis_level |-> level, response_method |-> method,
                ai_confidence |-> confidence, day_number |-> dayNumber,
                is_missed |-> FALSE]
        rows == upsertEntry(db.entries, row)
        completed == Cardinality({e \in rows : e.sprint_id = sprintId /\ ~e.is_missed})
        dayCount == Cardinality({e \in rows : /\ e.patient_id = pid
                                              /\ e.sprint_id = sprintId
                                              /\ ~e.is_missed})
    IN  [db EXCEPT
           !.entries = rows,
           !.sprints[sprintId].days_completed = completed,
           !.patients[pid] = ApplyUpdates(@, [day_count |-> dayCount,
                                                consecutive_missed |-> 0])]

\* generateReportToken: the sprint is closed.
generateReportToken(db, sprintId) ==
    [db EXCEPT !.sprints[sprintId].report_generated = TRUE,
               !.sprints[sprintId].status = "COMPLETED"]

triggerTransition(db, pid) ==
    LET moved == transitionState(db, pid, "TRANSITION", "SYSTEM_TIMER",
                                 [pending_question |-> "TRANSITION_CHOICE"])
    IN  [moved EXCEPT !.jobs = cancelPatientJobs(@, pid)]

\* recordDailyResponse(patient, level, rawText, method, confidence). The
\* acknowledgment templates, which rotate, are the one template D-ACK; of the
\* insights only the last (I-30, on the day that completes the sprint)
\* writes to the tables.
recordDailyResponse(db, pid, patient, level, method, confidence) ==
    LET active == ActiveSprints(db.sprints, pid)
        sprintId == CHOOSE s \in active : TRUE
        dayNumber == patient.day_count + 1
        today == now \div Day
        recorded == record_daily_entry(db, pid, sprintId, today, level, method, confidence,
                                       IF dayNumber < SprintDays THEN dayNumber ELSE SprintDays)
        cleared == updatePatient(recorded, pid, [pending_question |-> NULL])
        asked == IF dayNumber = 1
                 THEN updatePatient(cleared, pid, [pending_question |-> "MED_HISTORY_YN"])
                 ELSE cleared
        reported == IF dayNumber = SprintDays THEN generateReportToken(asked, sprintId)
                    ELSE asked
        final == IF dayNumber >= SprintDays THEN triggerTransition(reported, pid)
                 ELSE reported
    IN  IF Cardinality(active) # 1
        THEN Result(db, <<"ERR-DAILY">>)
        ELSE Result(final,
                    <<"D-ACK">> \o (IF dayNumber = 1 THEN <<"O-4-ASK">> ELSE <<>>)
                                \o (IF dayNumber = SprintDays THEN <<"I-30">> ELSE <<>>))

\* activatePatient(patient, parsedTime): the sprint, the transition and the
\* first check-in.
activatePatient(db, pid, patient, time24, jitter) ==
    LET created == insertSprint(db, pid)
        moved == transitionState(created, pid, "DAILY_ACTIVE", "PATIENT_RESPONSE",
                                 [preferred_time |-> time24, pending_question |-> NULL,
                                  day_count |-> 0, consecutive_missed |-> 0])
    IN  [moved EXCEPT !.jobs = scheduleDailyCheckin(@, pid, time24, patient.timezone, jitter)]

handleEnrolled(db, pid, patient, messageBody) ==
    IF trim(toUpperCase(messageBody)) = <<"START">>
    THEN Result(transitionState(db, pid, "ONBOARDING", "PATIENT_RESPONSE",
                                [pending_question |-> "ONBOARD_TIME"]),
                <<"O-2">>)
    ELSE Result(db, <<"ERR-ONBOARDING">>)

\* The enrollments explored carry no appointment date, so that
\* patient.appointment_date is null and the handler asks for it.
handleTimeSelection(db, pid, patient, messageBody) ==
    LET parsed == parseTime(messageBody)
    IN  IF parsed = <<>> THEN Result(db, <<"ERR-ONBOARDING">>)
        ELSE Result(updatePatient(db, pid, [preferred_time |-> parsed[1],
                                             pending_question |-> "ONBOARD_APPT"]),
                    <<"O-3-ASK-APPT">>)

handleAppointmentDate(db, pid, patient, messageBody, jitter) ==
    LET text == toUpperCase(trim(messageBody))
    IN  IF /\ text \notin {<<"NO">>, <<"N">>, <<"NONE">>, <<"NOPE">>}
           /\ parseFuzzyDate(messageBody) = <<>>
        THEN Result(db, <<"ERR-ONBOARDING">>)
        ELSE Result(activatePatient(db, pid, patient, patient.preferred_time, jitter),
                    <<"O-3-CONFIRMED">>)

handleMedHistoryYesNo(db, pid, patient, messageBody) ==
    LET text == toUpperCase(trim(messageBody))
    IN  IF text \in {<<"NO">>, <<"N">>, <<"NOT", " ", "SURE">>, <<"UNSURE">>}
        THEN Result(updatePatient(db, pid, [pending_question |-> NULL]), <<"O-4-DONE">>)
        ELSE IF text \in {<<"YES">>, <<"Y">>, <<"YEAH">>}
        THEN Result(updatePatient(db, pid, [pending_question |-> "MED_HISTORY_LIST"]),
                    <<"O-4-LIST">>)
        ELSE Result(db, <<"ERR-ONBOARDING">>)

handleMedHistoryList(db, pid, patient, messageBody) ==
    LET inserted == [db EXCEPT !.medications =
                        Append(@, [patient_id |-> pid, medication_raw |-> trim(messageBody),
                                   status |-> "UNKNOWN"])]
    IN  Result(updatePatient(inserted, pid, [pending_question |-> NULL]), <<"O-4-DONE">>)

handleMedHistoryReason(db, pid, patient, messageBody) ==
    Result(updatePatient(db, pid, [pending_question |-> NULL]), <<"O-4-DONE">>)

handleOnboarding(db, pid, patient, messageBody, jitter) ==
    LET pending == patient.pending_question
    IN  CASE pending = "ONBOARD_TIME" -> handleTimeSelection(db, pid, patient, messageBody)
          [] pending = "ONBOARD_APPT" ->
                handleAppointmentDate(db, pid, patient, messageBody, jitter)
          [] pending = "MED_HISTORY_YN" -> handleMedHistoryYesNo(db, pid, patient, messageBody)
          [] pending = "MED_HISTORY_LIST" -> handleMedHistoryList(db, pid, patient, messageBody)
          [] pending = "MED_HISTORY_REASON" ->
                handleMedHistoryReason(db, pid, patient, messageBody)
          [] OTHER -> Result(db, <<"ERR-ONBOARDING">>)

\* A confirmation recorded as if it were a first numeric answer.
recordClarifiedAsNumeric(db, pid, patient, messageBody) ==
    LET level == parseNumericLevel(messageBody)
    IN  IF level = <<>> THEN Result(db, <<"ERR-DAILY">>)
        ELSE recordDailyResponse(db, pid, patient, level[1], "NUMERIC", 100)

handleClarifyLevel(db, pid, patient, messageBody) ==
    LET level == parseNumericLevel(messageBody)
    IN  IF level = <<>> THEN Result(db, <<"ERR-DAILY">>)
        ELSE recordDailyResponse(db, pid, patient, level[1], "CLARIFIED", 100)

\* const method = parsed.method === 'NUMERIC' ? 'NUMERIC' : 'AI_PARSED'
acceptedMethod(method) == IF method = "NUMERIC" THEN "NUMERIC" ELSE "AI_PARSED"

\* A handler that asks for a confirmation whatever the parser returned.
askWhateverParsed(db, pid, patient, messageBody, ai, jitter) ==
    [Result(updatePatient(db, pid, [pending_question |-> "CLARIFY_LEVEL"]),
            <<"CLARIFY-LEVEL">>)
       EXCEPT !.parsed = [called |-> TRUE, result |-> parseResponse(String(messageBody), ai)]]

\* handleDailyActive. No weekly question is asked in the requests explored,
\* so pending_question is never WEEKLY_RESPONSE.
handleDailyActive(db, pid, patient, messageBody, ai, jitter) ==
    LET pending == patient.pending_question
        parsed == parseResponse(String(messageBody), ai)
        WithParse(result) == [result EXCEPT !.parsed = [called |-> TRUE, result |-> parsed]]
    IN  IF pending = "CLARIFY_LEVEL" THEN handleClarifyLevel(db, pid, patient, messageBody)
        ELSE IF pending \in {"MED_HISTORY_YN", "MED_HISTORY_LIST", "MED_HISTORY_REASON"}
        THEN handleOnboarding(db, pid, patient, messageBody, jitter)
        ELSE IF parsed = <<>> THEN WithParse(Result(db, <<"ERR-DAILY">>))
        ELSE CASE parsed[1].action = "ACCEPT" ->
                    WithParse(recordDailyResponse(db, pid, patient, parsed[1].level,
                                                  acceptedMethod(parsed[1].method),
                                                  parsed[1].confidence))
               [] parsed[1].action = "CLARIFY" ->
                    WithParse(Result(updatePatient(db, pid, [pending_question |-> "CLARIFY_LEVEL"]),
                                     <<"CLARIFY-LEVEL">>))
               [] OTHER -> WithParse(Result(db, <<"ERR-DAILY">>))

handlePaused(db, pid, patient, messageBody, jitter) ==
    LET text == toUpperCase(trim(messageBody))
        numericLevel == parseNumericLevel(messageBody)
        moved == transitionState(db, pid, "DAILY_ACTIVE", "PATIENT_RESPONSE", NoUpdates)
        scheduled == IF patient.preferred_time # NULL
                     THEN [moved EXCEPT !.jobs = scheduleDailyCheckin(@, pid,
                                            patient.preferred_time, patient.timezone, jitter)]
                     ELSE moved
    IN  IF numericLevel # <<>>
        THEN recordDailyResponse(scheduled, pid, patient, numericLevel[1], "NUMERIC", 100)
        ELSE IF text \in {<<"YES">>, <<"START">>, <<"Y">>}
        THEN Result(scheduled, <<"SYS-RESUME">>)
        ELSE Result(db, <<"SYS-PAUSED-INFO">>)

handleTransition(db, pid, patient, messageBody) ==
    LET text == trim(messageBody)
        moved == transitionState(db, pid, "DORMANT", "PATIENT_RESPONSE", NoUpdates)
    IN  IF text = <<"1">> THEN Result(moved, <<"T-1-WEEKLY-DEFER">>)
        ELSE IF text = <<"2">> THEN Result(moved, <<"T-1-TREATMENT-DEFER">>)
        ELSE IF text = <<"3">>
        THEN Result([moved EXCEPT !.jobs = cancelPatientJobs(@, pid)], <<"T-1-DORMANT">>)
        ELSE Result(db, <<"T-1">>)

handleDormant(db, pid, patient, messageBody, jitter) ==
    LET created == insertSprint(db, pid)
        moved == transitionState(created, pid, "DAILY_ACTIVE", "PATIENT_RESPONSE",
                                 [day_count |-> 0, consecutive_missed |-> 0])
        scheduled == IF patient.preferred_time # NULL
                     THEN [moved EXCEPT !.jobs = scheduleDailyCheckin(@, pid,
                                            patient.preferred_time, patient.timezone, jitter)]
                     ELSE moved
    IN  IF toUpperCase(trim(messageBody)) = <<"START">>
        THEN Result(scheduled, <<"SYS-REACTIVATE">>)
        ELSE Result(db, <<"SYS-DORMANT-INFO">>)

\* handleGlobalCommands: <<>> when no global command matched, <<result>>
\* otherwise. TIME and REPORT are not among the messages explored.
handleGlobalCommands(db, pid, patient, messageBody) ==
    LET text == trim(toUpperCase(messageBody))
        Stopped == transitionState(db, pid, "UNSUBSCRIBED", "PATIENT_RESPONSE", NoUpdates)
        Paused == transitionState(db, pid, "PAUSED", "PATIENT_RESPONSE", NoUpdates)
    IN  IF text \in {<<"STOP">>, <<"UNSUBSCRIBE">>, <<"QUIT">>, <<"CANCEL">>}
        THEN <<Result([Stopped EXCEPT !.jobs = cancelPatientJobs(@, pid)], <<"SYS-STOP">>)>>
        ELSE IF patient.state = "UNSUBSCRIBED"
        THEN <<Result(db, <<"SYS-UNSUBSCRIBED">>)>>
        ELSE IF text \in {<<"HELP">>, <<"INFO">>}
        THEN <<Result(db, <<"SYS-HELP">>)>>
        ELSE IF text \in {<<"PAUSE">>, <<"BREAK">>} /\ patient.state = "DAILY_ACTIVE"
        THEN <<Result([Paused EXCEPT !.jobs = cancelPatientJobs(@, pid)], <<"SYS-PAUSE">>)>>
        ELSE <<>>

\* STATE_HANDLERS[patient.state](patient, messageBody).
stateHandler(db, pid, patient, messageBody, ai, jitter) ==
    CASE patient.state = "ENROLLED" -> handleEnrolled(db, pid, patient, messageBody)
      [] patient.state = "ONBOARDING" -> handleOnboarding(db, pid, patient, messageBody, jitter)
      [] patient.state \in {"DAILY_ACTIVE", "TREATMENT"} ->
            handleDailyActive(db, pid, patient, messageBody, ai, jitter)
      [] patient.state = "PAUSED" -> handlePaused(db, pid, patient, messageBody, jitter)
      [] patient.state = "TRANSITION" -> handleTransition(db, pid, patient, messageBody)
      [] patient.state \in {"WEEKLY", "DORMANT"} ->
            handleDormant(db, pid, patient, messageBody, jitter)
      [] OTHER -> Result(db, <<"SYS-HELP">>)

\* The handler of POST /api/webhooks/twilio from the patient lookup on.
handler(pid, messageBody, ai, jitter) ==
    LET patient == patients[pid]
        globalResult == handleGlobalCommands(Db, pid, patient, messageBody)
    IN  IF globalResult # <<>> THEN globalResult[1]
        ELSE stateHandler(Db, pid, patient, messageBody, ai, jitter)

\* The latest request of the webhook: the message logged by logInboundMessage,
\* with what its handler returned.
InboundRow(sid, messageBody, result) ==
    [twilio_sid |-> sid, body |-> messageBody, replies |-> result.replies,
     parsed |-> result.parsed]

Range(seq) == {seq[i] : i \in DOMAIN seq}

\* POST /api/webhooks/twilio with MessageSid sid and Body body from the phone
\* number of patient pid: 400 for a body that is blank, the TwiML answer for
\* an unknown number; otherwise the message is logged, handled and answered.
Webhook(pid, sid, body, ai, jitter) ==
    /\ inbound.count < MaxInbound
    /\ IF trim(body) = <<>> \/ pid \notin DOMAIN patients
       THEN UNCHANGED <<patients, audit, jobs, messages, WebhookTables>>
       ELSE \E result \in {handler(pid, trim(body), ai, jitter)} :
                /\ patients' = result.db.patients
                /\ audit' = result.db.audit
                /\ jobs' = result.db.jobs
                /\ sprints' = result.db.sprints
                /\ entries' = result.db.entries
                /\ medications' = result.db.medications
                /\ messages' = messages \cup
                                 {SentMessage(pid, t) : t \in Range(result.replies)}
                /\ inbound' = [count |-> inbound.count + 1,
                               last |-> <<InboundRow(sid, trim(body), result)>>]
    /\ UNCHANGED <<now, calls, nCalls, nEnrolls, workers, parse>>

\* The classifier is called by handleDailyActive alone: the other requests
\* have one outcome of it.
AiChoices(pid) ==
    IF pid \in DOMAIN patients /\ patients[pid].state \in {"DAILY_ACTIVE", "TREATMENT"}
    THEN InboundAiOutcomes
    ELSE {[kind |-> "timeout", level |-> 0, confidence |-> 0]}

\* A day passes between two requests.
NextDay ==
    /\ now + Day <= MaxTime
    /\ now' = now + Day
    /\ UNCHANGED <<patients, audit, calls, nCalls, nEnrolls, jobs, workers, messages, parse, WebhookTables>>

\* The provider delivers a new message.
ReceiveMessage(pid, body, ai, jitter) ==
    Webhook(pid, inbound.count + 1, body, ai, jitter)

\* The provider delivers the latest message again, under the same MessageSid.
RedeliverMessage(pid, ai, jitter) ==
    /\ inbound.last # <<>>
    /\ Webhook(pid, inbound.last[1].twilio_sid, inbound.last[1].body, ai, jitter)

\* The tables before the requests explored: no patient, or a patient whom
\* onboarding has activated: DAILY_ACTIVE, with the sprint and the recurring
\* check-in that activatePatient created.
ActivatedRow ==
    [InitialRow("DAILY_ACTIVE") EXCEPT !.preferred_time = "08:00"]

InitInbound ==
    /\ now = 0
    /\ audit = <<>>
    /\ calls = [c \in CallerIds |-> IdleCall]
    /\ nCalls = 0
    /\ nEnrolls = 0
    /\ workers = [w \in WorkerIds |-> IdleWorker]
    /\ messages = {}
    /\ parse = NoParse
    /\ entries = {}
    /\ medications = <<>>
    /\ inbound = [count |-> 0, last |-> <<>>]
    /\ \/ /\ patients = [p \in {} |-> NewPatientRow]
          /\ sprints = <<>>
          /\ jobs = <<>>
       \/ /\ patients = [p \in SubjectIds |-> ActivatedRow]
          /\ sprints = <<NewSprintRow("p1")>>
          /\ jobs = scheduleDailyCheckin(<<>>, "p1", "08:00", ActivatedRow.timezone, 0)

\* The requests of one patient, one at a time; the check-ins they schedule
\* have no jitter.
NextInbound ==
    \/ \E pid \in SubjectIds, body \in Bodies :
          \E ai \in AiChoices(pid) : ReceiveMessage(pid, body, ai, 0)
    \/ \E pid \in SubjectIds :
          \E ai \in AiChoices(pid) : RedeliverMessage(pid, ai, 0)
    \/ \E pid \in SubjectIds : Enroll(pid)
    \/ NextDay

SpecInbound == InitInbound /\ [][NextInbound]_vars

(***************************************************************************)
(* The webhook and the dispatcher together                                 *)
(***************************************************************************)

\* Bound: the rows of scheduled_jobs the dispatcher lets the table grow to.
MaxQueue == 3

\* handleDailyCheckin, lines 650-658: the lookup of a daily_entries row of the
\* patient with entry_date = today and is_missed = false.
RespondedToday(pid) ==
    \E e \in entries : e.patient_id = pid /\ e.entry_date = now \div Day /\ ~e.is_missed

ProcessCheckinToday(w, j, jitter) ==
    /\ j \in JobIds
    /\ DailyCheckinJob(w, j, RespondedToday(jobs[j].patient_id), jitter, MaxQueue)

\* The messages of an activated patient who answers, pauses and resumes,
\* while one dispatcher invocation at a time runs the check-ins; the
\* classifier is not needed for these messages and the check-ins have no
\* jitter. A request whose cancelPatientJobs would wait for a row lock of the
\* claim in flight is handled once the claim has ended.
LifeBodies == {<<"2">>, <<"PAUSE">>, <<"YES">>}
NextLife ==
    \/ \E body \in LifeBodies :
          /\ ~CancelBlocked("p1")
          /\ ReceiveMessage("p1", body, [kind |-> "timeout", level |-> 0, confidence |-> 0], 0)
    \/ ClaimSelect("w1", MaxQueue)
    \/ ClaimUpdate("w1")
    \/ \E j \in JobIds : ProcessCheckinToday("w1", j, 0)
    \/ Tick

InitLife ==
    /\ InitInbound
    /\ "p1" \in DOMAIN patients

SpecLife == InitLife /\ [][NextLife]_vars

(***************************************************************************)
(* The clock arithmetic of the scheduler, in seconds                       *)
(* lib/services/scheduler.js: generateJitter, nextOccurrence,              *)
(* scheduleDailyCheckin                                                    *)
(*                                                                         *)
(* The dispatcher above counts time in ticks of half a day, in which no    *)
(* daylight-saving change is visible. Here the same functions are          *)
(* computed in seconds, on a timeline that starts at 00:00 UTC of the      *)
(* Saturday before a change of the clocks. The process runs with UTC as    *)
(* its own zone, so new Date('YYYY-MM-DDTHH:MM:SS') reads a wall clock as  *)
(* the UTC instant of the same digits.                                     *)
(***************************************************************************)

\* The last instant a call is made at, in half hours after the epoch.
MaxAfter == 95

HourSeconds == 3600
DaySeconds == 86400

\* The change of the clocks the timeline holds: on Sunday at 02:00 local
\* time, forward in spring and back in autumn.
Seasons == {"spring", "autumn"}
ChangeInstant(season) ==
    IF season = "spring" THEN DaySeconds + 7 * HourSeconds
                         ELSE DaySeconds + 6 * HourSeconds

\* The offset of the zone's wall clock from UTC at an instant.
OffsetAt(timezone, season, instant) ==
    IF timezone = "UTC" THEN 0
    ELSE IF (season = "spring") = (instant < ChangeInstant(season))
         THEN 0 - 5 * HourSeconds
         ELSE 0 - 4 * HourSeconds

\* Intl.DateTimeFormat(..., { timeZone }).formatToParts(instant) and
\* toLocaleString('en-US', { timeZone }): the wall clock of the zone, as
\* seconds since the epoch's midnight.
WallClock(timezone, season, instant) ==
    instant + OffsetAt(timezone, season, instant)

\* timeStr.split(':').map(Number), as seconds after midnight.
SecondsOfDay(timeStr) ==
    (CHOOSE h \in 0 .. 23 : Time24[h + 1] = timeStr) * HourSeconds

\* nextOccurrence(timeStr, timezone, afterDate).
nextOccurrenceAt(timeStr, timezone, season, after) ==
    LET localNow == WallClock(timezone, season, after)
        today == (localNow \div DaySeconds) * DaySeconds + SecondsOfDay(timeStr)
        localTarget == IF today <= localNow THEN today + DaySeconds ELSE today
        utcTarget == WallClock("UTC", season, localTarget)
        tzTarget == WallClock(timezone, season, localTarget)
        offsetMs == utcTarget - tzTarget
    IN  localTarget + offsetMs

\* Math.random() in units of 1 / RandomUnits, and generateJitter:
\* Math.floor(Math.random() * 300).
RandomUnits == 600
RandomDraws == {0, 1, 2, 300, 598, 599}
generateJitter(random) == (random * 300) \div RandomUnits

\* scheduleDailyCheckin(patientId, preferredTime, timezone) called at `now`:
\* the table after the insert.
scheduleDailyCheckinAt(table, pid, preferredTime, timezone, season, random) ==
    LET jitter == generateJitter(random)
        scheduledFor == nextOccurrenceAt(preferredTime, timezone, season, now)
    IN  Append(table,
               NewJobRow(pid, "DAILY_CHECKIN", scheduledFor + jitter, jitter,
                         "daily",
                         [preferred_time |-> preferredTime, timezone |-> timezone]))

ClockInputs ==
    [timeStr : Range(Time24), timezone : Timezones, season : Seasons]

\* The calls of the two functions: the arguments and, once made, the result.
CallNextOccurrence(input) ==
    /\ parse.kind = "nextOccurrence"
    /\ ~parse.done
    /\ parse.input = input
    /\ parse' = [parse EXCEPT !.done = TRUE,
                              !.result = <<nextOccurrenceAt(input.timeStr,
                                             input.timezone, input.season, now)>>]
    /\ UNCHANGED <<now, patients, audit, calls, nCalls, nEnrolls, jobs, workers,
                   messages, WebhookTables>>

CallScheduleDailyCheckin(input, random) ==
    /\ parse.kind = "scheduleDailyCheckin"
    /\ ~parse.done
    /\ parse.input = input
    /\ jobs' = scheduleDailyCheckinAt(jobs, "p1", input.timeStr, input.timezone,
                                      input.season, random)
    /\ parse' = [parse EXCEPT !.done = TRUE, !.result = <<jobs'[Len(jobs')]>>]
    /\ UNCHANGED <<now, patients, audit, calls, nCalls, nEnrolls, workers,
                   messages, WebhookTables>>

InitClock ==
    /\ now \in { k * (HourSeconds \div 2) : k \in 0 .. MaxAfter }
    /\ patients = [p \in SubjectIds |-> ActivatedRow]
    /\ audit = <<>>
    /\ calls = [c \in CallerIds |-> IdleCall]
    /\ nCalls = 0
    /\ nEnrolls = 0
    /\ jobs = <<>>
    /\ workers = [w \in WorkerIds |-> IdleWorker]
    /\ messages = {}
    /\ NoWebhookRows
    /\ parse \in [kind : {"nextOccurrence", "scheduleDailyCheckin"},
                  input : ClockInputs, done : {FALSE}, result : {<<>>}]

NextClock ==
    \/ \E input \in ClockInputs : CallNextOccurrence(input)
    \/ \E input \in ClockInputs, random \in RandomDraws :
          CallScheduleDailyCheckin(input, random)

SpecClock == InitClock /\ [][NextClock]_vars

(***************************************************************************)
(* Properties of transitionState                                           *)
(***************************************************************************)

\* The step in which caller c enters transitionState and reads the row.
BeginStep(c) == calls[c].pc = "idle" /\ calls'[c].pc # "idle"
\* The step in which the UPDATE of caller c is applied.
UpdateStep(c) == calls[c].pc = "update" /\ calls'[c].pc = "audit"
\* The step in which caller c leaves step 6 and returns.
AuditStep(c) == calls[c].pc = "audit" /\ calls'[c].pc = "done"

\* A transition table that lists nothing at all.
EmptyTable == [s \in States |-> {}]

C2_StopFromEveryNonTerminalState ==
    [][/\ \A from \in NonTerminalStates :
             /\ ~TransitionRejected(VALID_TRANSITIONS, from, "UNSUBSCRIBED")
             /\ ~TransitionRejected(EmptyTable, from, "UNSUBSCRIBED")
       /\ \A c \in CallerIds :
             /\ ( /\ BeginStep(c)
                  /\ calls'[c].toState = "UNSUBSCRIBED"
                  /\ calls'[c].fromState \in NonTerminalStates )
                => /\ calls'[c].pc = "update"
                   /\ calls'[c].updates.state = "UNSUBSCRIBED"
             /\ (UpdateStep(c) /\ calls[c].toState = "UNSUBSCRIBED")
                => patients'[calls[c].patientId].state = "UNSUBSCRIBED"
             /\ (AuditStep(c) /\ calls[c].toState = "UNSUBSCRIBED")
                => /\ calls'[c].result = "Success"
                   /\ calls'[c].patient.state = "UNSUBSCRIBED"]_vars

\* C2 happens: a STOP from a non-terminal state has returned success and the
\* row is UNSUBSCRIBED.
C2_Witness ==
    \E c \in CallerIds :
        /\ calls[c].pc = "done"
        /\ calls[c].result = "Success"
        /\ calls[c].toState = "UNSUBSCRIBED"
        /\ calls[c].fromState = "TREATMENT"
        /\ patients[calls[c].patientId].state = "UNSUBSCRIBED"

\* C3: a call with toState UNSUBSCRIBED for a patient who is already
\* UNSUBSCRIBED returns success as a no-op: no row update, no audit row.
C3_RepeatedStopIsNoOp ==
    \A c \in CallerIds :
        ( /\ calls[c].pc = "done"
          /\ calls[c].toState = "UNSUBSCRIBED"
          /\ calls[c].fromState = "UNSUBSCRIBED" )
        => /\ calls[c].result = "NoOp"
           /\ calls[c].rowWrites = 0
           /\ calls[c].auditWrites = 0

\* C4: for every state S other than DAILY_ACTIVE, a call with toState = S for
\* a patient in S returns success as a no-op: no row update, no audit row.
C4_SameStateIsNoOp ==
    \A c \in CallerIds :
        ( /\ calls[c].pc = "done"
          /\ calls[c].toState = calls[c].fromState
          /\ calls[c].toState # "DAILY_ACTIVE" )
        => /\ calls[c].result = "NoOp"
           /\ calls[c].rowWrites = 0
           /\ calls[c].auditWrites = 0

\* The columns of the patients table that transitionState sets by itself.
TimestampColumns == {"opted_in_at", "opted_out_at"}

\* The row the UPDATE of caller c must leave: state = toState and the caller's
\* extra fields; the other columns, timestamps aside, keep their values.
RowSetAsRequested(c, before, after) ==
    /\ after.state = calls[c].toState
    /\ \A col \in DOMAIN calls[c].additionalUpdates :
          after[col] = calls[c].additionalUpdates[col]
    /\ \A col \in DOMAIN before \ (DOMAIN calls[c].additionalUpdates
                                    \cup TimestampColumns \cup {"state"}) :
          after[col] = before[col]

\* The audit row a call of caller c owes: the state it read and its target.
OwedAuditRow(c) ==
    [patient_id |-> calls[c].patientId, from_state |-> calls[c].fromState,
     to_state |-> calls[c].toState, trigger_type |-> calls[c].triggerType]

C6_UnsubscribedIsTerminal ==
    [][\A p \in DOMAIN patients :
          patients[p].state = "UNSUBSCRIBED"
          => patients'[p].state = "UNSUBSCRIBED"]_vars

\* C7: the state column of an existing patient changes only in the UPDATE of a
\* transitionState call for that patient.
C7_StateWrittenOnlyByTransitionState ==
    [][\A p \in DOMAIN patients :
          patients'[p].state # patients[p].state
          => \E c \in CallerIds : UpdateStep(c) /\ calls[c].patientId = p]_vars

\* C8: concurrent transitionState calls behave as atomic read-modify-writes:
\* the UPDATE of a call is applied to the state the call read, so a transition
\* committed in between (STOP to UNSUBSCRIBED) is never overwritten by it.
C8_TransitionIsAtomic ==
    [][\A c \in CallerIds :
          UpdateStep(c)
          => patients[calls[c].patientId].state = calls[c].fromState]_vars

(***************************************************************************)
(* Properties of the job claim                                             *)
(***************************************************************************)

\* The jobs worker w holds: locked by its claim statement or in its batch.
HeldBy(w) == workers[w].locked \cup workers[w].batch

\* C9: two concurrent claims never take the same job: what one worker has
\* locked or been handed is disjoint from what any other has, and a job in a
\* batch is PROCESSING.
C9_ClaimedBatchesDisjoint ==
    /\ \A w1, w2 \in WorkerIds : w1 # w2 => HeldBy(w1) \cap HeldBy(w2) = {}
    /\ \A w \in WorkerIds : \A j \in workers[w].batch :
          jobs[j].status = "PROCESSING"

\* C9 happens: two claim statements run at the same time, each having locked
\* a job.
C9_Witness ==
    /\ workers["w1"].pc = "locked" /\ workers["w1"].locked # {}
    /\ workers["w2"].pc = "locked" /\ workers["w2"].locked # {}

\* PENDING rows that are due and that no other statement has locked.
Eligible(w) ==
    { j \in JobIds :
        /\ jobs[j].status = "PENDING"
        /\ jobs[j].scheduled_for <= now
        /\ \A o \in WorkerIds \ {w} : j \notin workers[o].locked }

\* C10: a claim with limit N takes at most N jobs (N, or all the eligible ones
\* when there are fewer); every one of them is PENDING, due and unlocked when
\* it is taken and none that is left is scheduled earlier; the jobs are
\* PROCESSING once the claim returns them; and a job only ever becomes
\* PROCESSING from PENDING, when due, through a claim.
C10_ClaimTakesEarliestDueJobs ==
    [][/\ \A w \in WorkerIds :
             /\ (workers[w].pc = "idle" /\ workers'[w].pc = "locked")
                => LET S == workers'[w].locked
                       N == workers'[w].limit
                   IN  /\ S \subseteq Eligible(w)
                       /\ Cardinality(S) <= N
                       /\ Cardinality(S) = N \/ S = Eligible(w)
                       /\ \A j \in S, k \in Eligible(w) \ S :
                             jobs[j].scheduled_for <= jobs[k].scheduled_for
             /\ (workers[w].pc = "locked" /\ workers'[w].pc # "locked")
                => /\ workers'[w].batch = workers[w].locked
                   /\ Cardinality(workers'[w].batch) <= workers[w].limit
                   /\ \A j \in workers[w].locked :
                         /\ jobs[j].status = "PENDING"
                         /\ jobs[j].scheduled_for <= now
                         /\ jobs'[j].status = "PROCESSING"
       /\ \A j \in JobIds :
             (jobs[j].status # "PROCESSING" /\ jobs'[j].status = "PROCESSING")
             => /\ jobs[j].status = "PENDING"
                /\ jobs[j].scheduled_for <= now
                /\ \E w \in WorkerIds : j \in workers[w].locked]_vars

\* C10 happens: a claim has returned the earlier of two due jobs and left the
\* later one PENDING.
C10_Witness ==
    \E w \in WorkerIds : \E j \in workers[w].batch : \E k \in JobIds :
        /\ workers[w].pc = "processing"
        /\ jobs[j].status = "PROCESSING"
        /\ jobs[k].status = "PENDING"
        /\ jobs[k].scheduled_for <= now
        /\ jobs[j].scheduled_for < jobs[k].scheduled_for

(***************************************************************************)
(* Properties of job resolution                                            *)
(***************************************************************************)

\* The step in which the handler of job j threw and markJobFailed ran.
ThrowStep(j) ==
    jobs[j].status = "PROCESSING" /\ jobs'[j].status \in {"PENDING", "FAILED"}

\* The step in which the handler of job j returned and markJobCompleted ran.
SuccessStep(j) ==
    jobs[j].status = "PROCESSING" /\ jobs'[j].status = "COMPLETED"

NewJobIds == (Len(jobs) + 1) .. Len(jobs')

C14_StaleCheckinHasNoEffect ==
    [][\A j \in JobIds :
          ( /\ SuccessStep(j)
            /\ jobs[j].job_type = "DAILY_CHECKIN"
            /\ patients[jobs[j].patient_id].state # "DAILY_ACTIVE" )
          => /\ messages' = messages
             /\ patients' = patients
             /\ Len(jobs') = Len(jobs)
             /\ \A k \in JobIds \ {j} : jobs'[k] = jobs[k]]_vars

\* C15: a cancelPatientJobs step for patient p (some job of p becomes
\* CANCELLED) turns every PENDING job of p into CANCELLED and changes nothing
\* else: the other columns of these rows, the jobs of p in any other status,
\* the jobs of other patients, and all the other tables stay as they were.
C15_CancelOnlyPendingOfPatient ==
    [][\A j \in JobIds :
          (jobs[j].status # "CANCELLED" /\ jobs'[j].status = "CANCELLED")
          => /\ Len(jobs') = Len(jobs)
             /\ \A k \in JobIds :
                   jobs'[k] = IF /\ jobs[k].patient_id = jobs[j].patient_id
                                 /\ jobs[k].status = "PENDING"
                              THEN [jobs[k] EXCEPT !.status = "CANCELLED"]
                              ELSE jobs[k]
             /\ UNCHANGED <<patients, audit, workers, messages>>]_vars

\* C15 happens: a patient has a CANCELLED job next to a job that is being
\* processed and was left alone.
C15_Witness ==
    \E j, k \in JobIds :
        /\ jobs[j].status = "CANCELLED"
        /\ jobs[k].status = "PROCESSING"
        /\ jobs[k].patient_id = jobs[j].patient_id

\* Patient p has no PENDING job in the table.
NoPendingJob(table, p) ==
    \A k \in DOMAIN table : table[k].patient_id = p => table[k].status # "PENDING"

\* C16: once a patient is PAUSED or UNSUBSCRIBED and has no PENDING job left
\* (they were cancelled), the jobs that were PROCESSING at that moment finish
\* without leaving the patient a PENDING job.
C16_NoPendingAfterCancel ==
    [][\A p \in DOMAIN patients : \A j \in JobIds :
          ( /\ patients[p].state \in {"PAUSED", "UNSUBSCRIBED"}
            /\ NoPendingJob(jobs, p)
            /\ jobs[j].patient_id = p
            /\ jobs[j].status = "PROCESSING"
            /\ jobs'[j].status # "PROCESSING" )
          => NoPendingJob(jobs', p)]_vars

TrimmedIs(text, d) ==
    \E i \in 1 .. Len(text) :
        /\ text[i] = d
        /\ \A k \in 1 .. Len(text) : k # i => text[k] = " "

\* A parseResponse call on a string has returned.
ParsedString ==
    parse.kind = "parseResponse" /\ parse.pc = "done" /\ parse.input.isString

\* C18: for every input whose trimmed text is exactly one of "1" .. "5",
\* parseResponse returns that level with confidence 1.0, method NUMERIC and
\* action ACCEPT, and neither the external classifier nor the regex fallback
\* has been invoked.
C18_NumericPassthrough ==
    \A n \in 1 .. 5 :
        (ParsedString /\ TrimmedIs(parse.input.text, <<"1", "2", "3", "4", "5">>[n]))
        => /\ parse.result = <<[level |-> n, confidence |-> 100,
                                method |-> "NUMERIC", action |-> "ACCEPT"]>>
           /\ ~parse.aiCalled
           /\ ~parse.regexCalled

\* C18 happens: "3" with a blank on each side has been parsed as level 3.
C18_Witness ==
    /\ ParsedString
    /\ parse.input.text = <<" ", "3", " ">>
    /\ parse.result # <<>>
    /\ parse.result[1].level = 3
    /\ parse.result[1].method = "NUMERIC"

\* C19: routeByConfidence, on a confidence in hundredths from 0.00 to 1.00,
\* gives ACCEPT from 0.80 up, CLARIFY from 0.60 to 0.79 and REPROMPT below
\* 0.60; so 0.80 is ACCEPT, 0.79 and 0.60 are CLARIFY and 0.59 is REPROMPT.
C19_ConfidenceBands ==
    (parse.kind = "routeByConfidence" /\ parse.pc = "done")
    => /\ parse.confidence >= 80 => parse.result = "ACCEPT"
       /\ (parse.confidence >= 60 /\ parse.confidence < 80) => parse.result = "CLARIFY"
       /\ parse.confidence < 60 => parse.result = "REPROMPT"
       /\ parse.confidence = 80 => parse.result = "ACCEPT"
       /\ parse.confidence \in {79, 60} => parse.result = "CLARIFY"
       /\ parse.confidence = 59 => parse.result = "REPROMPT"

\* C19 happens: the confidence 0.80, the lower bound of its band, was routed.
C19_Witness ==
    /\ parse.kind = "routeByConfidence"
    /\ parse.pc = "done"
    /\ parse.confidence = 80
    /\ parse.result = "ACCEPT"

\* The collaborator answers with a level in 1..5 and a confidence in [0, 1].
ValidReply(ai) ==
    /\ ai.kind = "reply"
    /\ ai.level \in 1 .. 5
    /\ ai.confidence \in 0 .. 1000

\* The text has a token other than the blank and is not a single digit 1..5.
NonNumericText(text) ==
    /\ \E i \in 1 .. Len(text) : text[i] # " "
    /\ \A d \in Digits : ~TrimmedIs(text, d)

\* C20: for non-numeric text the regex fallback is consulted exactly when the
\* external classification call fails (it throws, times out or answers with
\* malformed output); when the call returns a valid result, parseResponse
\* returns it with method AI_PARSED and the action routed from its
\* confidence, however low, and the regex patterns are not consulted.
C20_FallbackOnlyOnFailure ==
    (ParsedString /\ NonNumericText(parse.input.text))
    => /\ parse.aiCalled
       /\ parse.regexCalled <=> ~ValidReply(parse.ai)
       /\ ValidReply(parse.ai)
          => parse.result =
               <<[level |-> parse.ai.level,
                  confidence |-> (parse.ai.confidence + 5) \div 10,
                  method |-> "AI_PARSED",
                  action |-> routeByConfidence((parse.ai.confidence + 5) \div 10)]>>

\* C20 happens: for "worst", which the regex patterns would classify, the
\* collaborator's answer of low confidence has been returned as AI_PARSED with
\* action REPROMPT and the regex fallback has not run.
C20_Witness ==
    /\ ParsedString
    /\ parse.input.text = <<"worst">>
    /\ regexFallback(parse.input.text) # <<>>
    /\ parse.result # <<>>
    /\ parse.result[1].method = "AI_PARSED"
    /\ parse.result[1].action = "REPROMPT"
    /\ ~parse.regexCalled

\* C20 happens as well on the failure side: the collaborator's call failed
\* and the regex fallback classified the text.
C20_FallbackWitness ==
    /\ ParsedString
    /\ parse.ai.kind = "timeout"
    /\ parse.regexCalled
    /\ parse.result # <<>>
    /\ parse.result[1].method = "REGEX_FALLBACK"

\* The collaborator replied, with a level outside 1..5 or a confidence
\* outside [0, 1].
MalformedReply(ai) ==
    /\ ai.kind = "reply"
    /\ ai.level \notin 1 .. 5 \/ ai.confidence < 0 \/ ai.confidence > 1000

\* C21: every non-null result of parseResponse has a level in 1..5, a
\* confidence in [0, 1], a method among NUMERIC, AI_PARSED and REGEX_FALLBACK,
\* and the action routeByConfidence gives for its confidence; a collaborator
\* reply with a level or a confidence out of range counts as a failed call
\* and is never returned as an AI_PARSED result.
C21_ResultWellFormed ==
    (parse.kind = "parseResponse" /\ parse.pc = "done")
    => /\ parse.result # <<>>
          => /\ parse.result[1].level \in 1 .. 5
             /\ parse.result[1].confidence \in 0 .. 100
             /\ parse.result[1].method \in {"NUMERIC", "AI_PARSED", "REGEX_FALLBACK"}
             /\ parse.result[1].action = routeByConfidence(parse.result[1].confidence)
       /\ (MalformedReply(parse.ai) /\ parse.aiCalled)
          => /\ parse.regexCalled
             /\ parse.result # <<>> => parse.result[1].method = "REGEX_FALLBACK"

\* C21 happens: the collaborator replied level 6, the call counted as failed
\* and the regex fallback classified the text.
C21_Witness ==
    /\ ParsedString
    /\ parse.ai.kind = "reply"
    /\ parse.ai.level = 6
    /\ parse.aiCalled
    /\ parse.result # <<>>
    /\ parse.result[1].method = "REGEX_FALLBACK"

(***************************************************************************)
(* Failures of the datastore inside transitionState                        *)
(***************************************************************************)

\* The step in which the UPDATE of caller c returns an error.
UpdateFailsStep(c) == calls[c].pc = "update" /\ calls'[c].pc = "done"

\* C29: if the audit insert fails after the patient row was updated, the
\* update stays (nothing is rolled back) and the call returns success with
\* the updated row; if the UPDATE of the row itself fails, the call returns a
\* failure, the row is as it was and no audit row is written.
C29_DatastoreFailures ==
    [][\A c \in CallerIds :
          /\ (AuditStep(c) /\ calls'[c].logError)
             => /\ calls'[c].result = "Success"
                /\ calls'[c].patient = calls[c].patient
                /\ calls'[c].patient.state = calls[c].toState
                /\ calls'[c].rowWrites = 1
                /\ patients' = patients
                /\ audit' = audit
          /\ UpdateFailsStep(c)
             => /\ calls'[c].result = "UpdateFailed"
                /\ calls'[c].rowWrites = 0
                /\ calls'[c].auditWrites = 0
                /\ patients' = patients
                /\ audit' = audit]_vars

\* C29 happens: one call has returned after its audit insert failed, the row
\* holding the state it set and the log being empty, and another call has
\* returned the failure of its UPDATE.
C29_Witness ==
    \E c, d \in CallerIds :
        /\ calls[c].pc = "done"
        /\ calls[c].logError
        /\ calls[c].result = "Success"
        /\ patients[calls[c].patientId].state = calls[c].toState
        /\ calls[c].fromState # calls[c].toState
        /\ audit = <<>>
        /\ calls[d].pc = "done"
        /\ calls[d].result = "UpdateFailed"

(***************************************************************************)
(* Properties of the re-engagement handler                                 *)
(***************************************************************************)

\* The type of re-engagement job j.
ReEngagementType(j) ==
    IF jobs[j].job_type = "RE_ENGAGEMENT" /\ "type" \in DOMAIN jobs[j].payload
    THEN jobs[j].payload.type ELSE NULL

Delivered == inbound'.count = inbound.count + 1
Delivery == inbound'.last[1]
SubjectBefore == patients["p1"]
SubjectAfter == patients'["p1"]

\* The answers of the ambiguous-positive group; "so so" is so-so, with any
\* one character between the two words.
AmbiguousAnswers ==
    {<<"fine">>, <<"okay">>, <<"ok">>, <<"meh">>, <<"not", " ", "bad">>, <<"alright">>,
     <<"so", " ", "so">>, <<"not", " ", "great">>}
Unavailable == {ai \in InboundAiOutcomes : classifyWithAI(ai) = <<>>}
AmbiguousHit == [level |-> 2, confidence |-> 65]

\* C22: with the classifier unavailable, a text that matches only the
\* ambiguous-positive group is classified level 2 with a confidence below
\* CONFIDENCE_ACCEPT and routed to CLARIFY; handleDailyActive then asks for
\* the confirmation (pending_question CLARIFY_LEVEL, reply CLARIFY-LEVEL)
\* and records nothing: no entry, no count, no change of state.
C22_AmbiguousAsksClarification ==
    [][(/\ Delivered
        /\ Delivery.parsed.called
        /\ Delivery.parsed.result # <<>>
        /\ Delivery.parsed.result[1].method = "REGEX_FALLBACK"
        /\ regexFallback(Delivery.body) = <<AmbiguousHit>>)
       => /\ \A text \in AmbiguousAnswers : \A ai \in Unavailable :
                parseResponse(String(text), ai)
                  = ParseResult(AmbiguousHit, "REGEX_FALLBACK", "CLARIFY")
          /\ AmbiguousHit.confidence < CONFIDENCE_ACCEPT
          /\ Delivery.parsed.result[1].level = 2
          /\ Delivery.parsed.result[1].action = "CLARIFY"
          /\ Delivery.replies = <<"CLARIFY-LEVEL">>
          /\ SubjectAfter = [SubjectBefore EXCEPT !.pending_question = "CLARIFY_LEVEL"]
          /\ entries' = entries
          /\ sprints' = sprints]_vars

\* C22 happens: the classifier timed out on "Fine", and the patient is asked
\* to confirm level 2 while no entry is written.
C22_Witness ==
    /\ inbound.last # <<>>
    /\ inbound.last[1].body = <<"Fine">>
    /\ inbound.last[1].parsed.called
    /\ inbound.last[1].parsed.result
         = ParseResult(AmbiguousHit, "REGEX_FALLBACK", "CLARIFY")
    /\ patients["p1"].pending_question = "CLARIFY_LEVEL"
    /\ entries = {}

EntriesOf(rows, pid, sprintId, entryDate) ==
    {e \in rows : e.patient_id = pid /\ e.sprint_id = sprintId /\ e.entry_date = entryDate}

\* The level the request of the step writes: the parser's, or the clean
\* number of a reply that bypasses the parser.
WrittenLevel ==
    IF Delivery.parsed.called THEN Delivery.parsed.result[1].level
    ELSE parseNumericLevel(Delivery.body)[1]

\* C24: a write of the daily entry for a (patient, sprint, date) that has a
\* row with another level leaves exactly one row for it, holding the later
\* level; the table has as many rows as before, and day_count and
\* days_completed are what they were after the first write.
C24_SecondWriteOverwrites ==
    [][\A s \in DOMAIN sprints :
          (/\ Delivered
           /\ EntriesOf(entries, "p1", s, now \div Day) # {}
           /\ EntriesOf(entries', "p1", s, now \div Day)
                # EntriesOf(entries, "p1", s, now \div Day))
          => /\ Cardinality(EntriesOf(entries', "p1", s, now \div Day)) = 1
             /\ \A e \in EntriesOf(entries', "p1", s, now \div Day) :
                    e.hv_fis_level = WrittenLevel
             /\ Cardinality(entries') = Cardinality(entries)
             /\ SubjectAfter.day_count = SubjectBefore.day_count
             /\ sprints'[s].days_completed = sprints[s].days_completed]_vars

\* C24 happens: the second reply of a date has replaced the level of the one
\* row (which keeps day 1), and as the second reply it has ended the sprint.
C24_Witness ==
    /\ "p1" \in DOMAIN patients
    /\ patients["p1"].state = "TRANSITION"
    /\ patients["p1"].day_count = 1
    /\ Cardinality(entries) = 1
    /\ \A e \in entries : e.day_number = 1 /\ e.hv_fis_level = 3
    /\ \E s \in DOMAIN sprints : sprints[s].days_completed = 1

\* C25: a patient has at most one ACTIVE sprint, whatever the requests were:
\* activation at the end of onboarding, re-start from DORMANT, STOP,
\* re-enrollment.
C25_AtMostOneActiveSprint ==
    \A pid \in DOMAIN patients : Cardinality(ActiveSprints(sprints, pid)) <= 1

\* The method of the step that produced the entry: the parser's for an
\* accepted result, CLARIFIED for the reply to a clarification, NUMERIC for
\* the number that resumes a paused patient.
ProducingMethod ==
    IF Delivery.parsed.called THEN Delivery.parsed.result[1].method
    ELSE IF SubjectBefore.pending_question = "CLARIFY_LEVEL"
            /\ SubjectBefore.state \in {"DAILY_ACTIVE", "TREATMENT"}
    THEN "CLARIFIED"
    ELSE "NUMERIC"

\* C26: the entry a request writes carries the response_method of the step
\* that produced it: NUMERIC, AI_PARSED, REGEX_FALLBACK or CLARIFIED.
C26_EntryCarriesMethod ==
    [][(Delivered /\ entries' # entries)
       => \A e \in entries' \ entries : e.response_method = ProducingMethod]_vars

\* The step is the second delivery of the latest message, under its
\* MessageSid.
Redelivered ==
    /\ Delivered
    /\ inbound.last # <<>>
    /\ Delivery.twilio_sid = inbound.last[1].twilio_sid

\* C27: the duplicate delivery of an inbound message leaves the patient's
\* state and pending_question, the entries, the medication history and the
\* jobs as the first delivery left them.
C27_DuplicateDeliveryChangesNothing ==
    [][Redelivered
       => /\ SubjectAfter.state = SubjectBefore.state
          /\ SubjectAfter.pending_question = SubjectBefore.pending_question
          /\ entries' = entries
          /\ medications' = medications
          /\ jobs' = jobs]_vars

\* C28: opted_in_at is set when the patient enters ONBOARDING for the first
\* time and is kept by a later entry; opted_out_at is set on every entry
\* into UNSUBSCRIBED.
C28_OptTimestamps ==
    [][/\ ("p1" \in DOMAIN patients /\ SubjectBefore.state # "ONBOARDING"
           /\ SubjectAfter.state = "ONBOARDING")
          => SubjectAfter.opted_in_at
               = (IF SubjectBefore.opted_in_at = <<>> THEN <<now>>
                  ELSE SubjectBefore.opted_in_at)
       /\ ("p1" \in DOMAIN patients /\ SubjectBefore.state # "UNSUBSCRIBED"
           /\ SubjectAfter.state = "UNSUBSCRIBED")
          => SubjectAfter.opted_out_at = <<now>>]_vars

(***************************************************************************)
(* Properties of the scheduler's clock arithmetic                          *)
(***************************************************************************)

ClockCall(kind) == parse.kind = kind /\ parse.done

\* The first whole hour strictly after an instant at which the wall clock of
\* the zone shows timeStr.
HourGrid == { k * HourSeconds : k \in 0 .. (MaxAfter \div 2 + 50) }
ShowsTime(timeStr, timezone, season, instant) ==
    WallClock(timezone, season, instant) % DaySeconds = SecondsOfDay(timeStr)
FirstAfter(timeStr, timezone, season, after) ==
    LET hits == { t \in HourGrid : /\ t > after
                                   /\ ShowsTime(timeStr, timezone, season, t) }
    IN  CHOOSE t \in hits : \A u \in hits : t <= u

\* C31: scheduleDailyCheckin inserts exactly one PENDING job with recurrence
\* "daily"; its scheduled_for is nextOccurrence(preferredTime, timezone) plus
\* a jitter of 0 to 300 seconds, jitter_seconds is the offset applied, and
\* the instant without the jitter is strictly later than the time of the call.
C31_DailyCheckinInserted ==
    ClockCall("scheduleDailyCheckin") =>
        LET unjittered == nextOccurrenceAt(parse.input.timeStr, parse.input.timezone,
                                           parse.input.season, now)
        IN  /\ Len(jobs) = 1
            /\ jobs[1].job_type = "DAILY_CHECKIN"
            /\ jobs[1].status = "PENDING"
            /\ jobs[1].recurrence = "daily"
            /\ jobs[1].jitter_seconds \in 0 .. 300
            /\ jobs[1].scheduled_for = unjittered + jobs[1].jitter_seconds
            /\ unjittered > now

\* C32: nextOccurrence(timeStr, timezone, after) is the first instant strictly
\* after `after` at which the wall clock of the zone shows timeStr, also when
\* a change of the clocks lies between `after` and that instant.
C32_FirstLocalOccurrence ==
    ClockCall("nextOccurrence") =>
        parse.result[1] = FirstAfter(parse.input.timeStr, parse.input.timezone,
                                     parse.input.season, now)

\* The parts of C31 and C32 that do not depend on the zone's offset.
ClockRowWritten ==
    ClockCall("scheduleDailyCheckin") =>
        LET unjittered == nextOccurrenceAt(parse.input.timeStr, parse.input.timezone,
                                           parse.input.season, now)
        IN  /\ Len(jobs) = 1
            /\ jobs[1].status = "PENDING"
            /\ jobs[1].recurrence = "daily"
            /\ jobs[1].jitter_seconds \in 0 .. 299
            /\ jobs[1].scheduled_for = unjittered + jobs[1].jitter_seconds
ClockRightInUtc ==
    ClockCall("nextOccurrence") /\ parse.input.timezone = "UTC" =>
        parse.result[1] = FirstAfter(parse.input.timeStr, "UTC",
                                     parse.input.season, now)
ClockLaterWhenNoChange ==
    ClockCall("scheduleDailyCheckin") /\ parse.input.season = "spring" =>
        nextOccurrenceAt(parse.input.timeStr, parse.input.timezone,
                         parse.input.season, now) > now

(***************************************************************************)
(* Properties of the regex fallback                                        *)
(***************************************************************************)

\* The pattern groups by name, what each answers, and whether a text (lower
\* case, trimmed) matches one.
GroupNames ==
    <<"embedded", "level1", "level5", "level4", "pushed", "medication",
      "present", "ambiguous">>
GroupHits(lower, name) ==
    CASE name = "embedded" -> \E i \in 1 .. Len(lower) : EmbeddedNumAt(lower, i)
      [] name = "level1" -> Matches(lower, Level1Phrases)
      [] name = "level5" -> Matches(lower, Level5Phrases)
      [] name = "level4" -> Matches(lower, Level4Phrases)
      [] name = "pushed" -> Matches(lower, Level3Phrases)
      [] name = "medication" -> Matches(lower, MedicationPhrases)
      [] name = "present" -> Matches(lower, Level2Phrases)
      [] name = "ambiguous" -> Matches(lower, AmbiguousPhrases)
GroupAnswer(lower, name) ==
    CASE name = "embedded" ->
            LET i == CHOOSE i \in 1 .. Len(lower) :
                        /\ EmbeddedNumAt(lower, i)
                        /\ \A k \in 1 .. (i - 1) : ~EmbeddedNumAt(lower, k)
            IN  [level |-> parseInt(lower[NextNonSpace(lower, i + 1)]),
                 confidence |-> 90]
      [] name = "level1" -> [level |-> 1, confidence |-> 85]
      [] name = "level5" -> [level |-> 5, confidence |-> 88]
      [] name = "level4" -> [level |-> 4, confidence |-> 85]
      [] name = "pushed" -> [level |-> 3, confidence |-> 83]
      [] name = "medication" -> [level |-> 3, confidence |-> 75]
      [] name = "present" -> [level |-> 2, confidence |-> 82]
      [] name = "ambiguous" -> [level |-> 2, confidence |-> 65]

\* The answer of the first group of an order that the text matches, <<>>
\* when it matches none.
FirstGroupAnswer(text, order) ==
    LET lower == trim(toLowerCase(text))
        hits == {g \in DOMAIN order : GroupHits(lower, order[g])}
    IN  IF hits = {} THEN <<>>
        ELSE <<GroupAnswer(lower, order[CHOOSE g \in hits : \A h \in hits : g <= h])>>
GroupsHit(text) ==
    {g \in DOMAIN GroupNames : GroupHits(trim(toLowerCase(text)), GroupNames[g])}
RegexCalled == parse.kind = "regexFallback" /\ parse.pc = "done"

\* C33 (as amended): regexFallback tests its groups in the order embedded
\* number, level-1 no-headache, level-5, level-4, level-3 pushed-through,
\* level-3 medication, level-2 present, level-2 ambiguous, and returns the
\* level and confidence of the first that matches; null when none matches.
C33_FirstGroupWins ==
    RegexCalled => parse.result = FirstGroupAnswer(parse.text, GroupNames)

\* C33 (as stated): the order has no level-1 group between the embedded
\* number and level 5.
C33_SevenGroupsInOrder ==
    RegexCalled =>
        parse.result = FirstGroupAnswer(parse.text,
                          SelectSeq(GroupNames, LAMBDA name : name # "level1"))

\* A text that matches two groups was answered with the earlier one.
C33_Witness ==
    /\ RegexCalled
    /\ Cardinality(GroupsHit(parse.text)) = 2
    /\ parse.result # <<>>
    /\ parse.result[1].level = 4

(***************************************************************************)
(* Properties of the dispatcher on a failing datastore                     *)
(***************************************************************************)

TerminalStatuses == {"COMPLETED", "FAILED", "CANCELLED"}
IsProcessing(j) == j \in JobIds /\ jobs[j].status = "PROCESSING"

\* C34: every claimed job is eventually resolved: it does not stay
\* PROCESSING forever, also when the write that marks it completed or failed
\* returns an error.
C34_ProcessingIsResolved ==
    \A j \in 1 .. MaxJobs : IsProcessing(j) ~> ~IsProcessing(j)

\* C35: COMPLETED, FAILED and CANCELLED are terminal: a job in one of them
\* keeps its status in every step, so it is neither put back to PENDING nor
\* claimed again.
C35_TerminalStatusesStay ==
    [][\A j \in JobIds :
          jobs[j].status \in TerminalStatuses
              => j \in DOMAIN jobs' /\ jobs'[j].status = jobs[j].status]_vars

\* The parts of C35 that hold: FAILED and CANCELLED jobs keep their status,
\* and only PENDING jobs are claimed.
FailedAndCancelledStay ==
    [][\A j \in JobIds :
          jobs[j].status \in {"FAILED", "CANCELLED"}
              => jobs'[j].status = jobs[j].status]_vars
OnlyPendingClaimed ==
    [][\A j \in JobIds :
          jobs'[j].status = "PROCESSING" /\ jobs[j].status # "PROCESSING"
              => jobs[j].status = "PENDING"]_vars

(***************************************************************************)
(* Properties of the clarification path                                    *)
(***************************************************************************)

SubjectKnown == "p1" \in DOMAIN patients /\ "p1" \in DOMAIN patients'
ParsedAs(action) ==
    /\ Delivery.parsed.called
    /\ Delivery.parsed.result # <<>>
    /\ Delivery.parsed.result[1].action = action
ClarifyPending ==
    /\ SubjectBefore.state = "DAILY_ACTIVE"
    /\ SubjectBefore.pending_question = "CLARIFY_LEVEL"
CleanLevel == parseNumericLevel(Delivery.body) # <<>>
ResumedWithLevel == SubjectBefore.state = "PAUSED" /\ CleanLevel
TodaysEntries == {e \in entries' : e.patient_id = "p1" /\ e.entry_date = now \div Day}

\* What C37 says of the CLARIFY and REPROMPT results and of the replies to a
\* pending clarification.
ClarificationSteps ==
    /\ ParsedAs("CLARIFY")
          => /\ entries' = entries
             /\ SubjectAfter = [SubjectBefore EXCEPT !.pending_question = "CLARIFY_LEVEL"]
    /\ ParsedAs("REPROMPT")
          => entries' = entries /\ patients' = patients /\ sprints' = sprints
    /\ ClarifyPending /\ ~CleanLevel
          => entries' = entries /\ SubjectAfter.pending_question = "CLARIFY_LEVEL"
    /\ ClarifyPending /\ CleanLevel
          => /\ SubjectAfter.pending_question # "CLARIFY_LEVEL"
             /\ \E e \in TodaysEntries :
                   /\ e.response_method = "CLARIFIED"
                   /\ e.ai_confidence = 100
                   /\ <<e.hv_fis_level>> = parseNumericLevel(Delivery.body)
                   /\ ~e.is_missed

RecordedDays ==
    {e \in entries' : /\ e.patient_id = "p1"
                      /\ e.sprint_id \in ActiveSprints(sprints, "p1")
                      /\ ~e.is_missed}

\* C40: a subject moves from DAILY_ACTIVE to TRANSITION, and gets the insight
\* of the last day, only when its active sprint holds all the recorded days
\* of a sprint; a second reply on a date that has an entry does neither.
C40_TransitionAtFullSprint ==
    [][(/\ Delivered
        /\ SubjectKnown
        /\ SubjectBefore.state = "DAILY_ACTIVE"
        /\ \/ SubjectAfter.state = "TRANSITION"
           \/ "I-30" \in Range(Delivery.replies))
       => Cardinality(RecordedDays) = SprintDays]_vars

(***************************************************************************)
(* Properties of the dispatcher and the opt-out                            *)
(***************************************************************************)

\* C38: no job of any type makes the dispatcher send a message to a subject
\* who is UNSUBSCRIBED when the job is processed, also when the job was
\* claimed before the STOP arrived.
C38_NoMessageToUnsubscribed ==
    [][\A m \in messages' \ messages :
          patients[m.patient_id].state # "UNSUBSCRIBED"]_vars

\* The part of C38 that holds: a DAILY_CHECKIN job sends nothing to a subject
\* who is not DAILY_ACTIVE.
CheckinGuarded ==
    [][\A m \in messages' \ messages :
          m.template_id = "D-1" => patients[m.patient_id].state = "DAILY_ACTIVE"]_vars

(***************************************************************************)
(* Properties of the check-in of a patient who answers                     *)
(***************************************************************************)

\* The DAILY_CHECKIN jobs that are resolved in a step, and the rows a step
\* adds to the queue.
CheckinResolved(j) ==
    /\ jobs[j].job_type = "DAILY_CHECKIN"
    /\ jobs[j].status = "PROCESSING"
    /\ jobs'[j].status # "PROCESSING"
    /\ patients[jobs[j].patient_id].state = "DAILY_ACTIVE"
AddedJobs == {jobs'[k] : k \in (DOMAIN jobs') \ JobIds}

LiveCheckins(pid) ==
    {j \in JobIds : /\ jobs[j].patient_id = pid
                    /\ jobs[j].job_type = "DAILY_CHECKIN"
                    /\ jobs[j].recurrence = "daily"
                    /\ jobs[j].status \in {"PENDING", "PROCESSING"}}
C39_OneLiveCheckin ==
    \A pid \in DOMAIN patients : Cardinality(LiveCheckins(pid)) <= 1

\* Two recurring check-ins of one subject waiting in the queue at once.
OnePendingCheckin ==
    \A pid \in DOMAIN patients :
        Cardinality({j \in LiveCheckins(pid) : jobs[j].status = "PENDING"}) <= 1

====
